---- MODULE Spec2Model ----
(***************************************************************************)
(* Email agent: listener registry and dispatcher (ListenersManager), the   *)
(* listener context operations, the IMAP-to-store sync run                  *)
(* (EmailSyncService.syncEmails) and the IDLE state of ImapManager.         *)
(*                                                                         *)
(* The module holds several state machines over one set of variables.     *)
(* Each specification moves the variables of its own component and leaves  *)
(* the others at their initial value:                                      *)
(*   Spec            registry (loadAllListeners, watchListeners) and       *)
(*                   checkEvent, from the start of the server              *)
(*   SpecWatch       the same once the watcher is watching                 *)
(*   SpecCtx         context mutations of createContext                    *)
(*   SpecSync        syncEmails, two runs in succession                    *)
(*   SpecIdleSync    the sync a "mail" event starts                        *)
(*   SpecIdle        startIdleMonitoring / stopIdleMonitoring / reconnect  *)
(*   SpecIdleLive    the same with attempts that succeed, under fairness   *)
(*   SpecNewsletter  the auto_archive_newsletters handler                  *)
(*   SpecOps         operations running at once on the shared connection   *)
(*   SpecStore       the methods of DatabaseManager and EmailDatabase      *)
(*   SpecCriteria    buildImapSearchCriteria on one SearchCriteria         *)
(*   SpecFetch       fetchEmailsBatch and the fetchEmail calls of a batch  *)
(*   SpecHost        notify and callAgent of the listener contexts         *)
(*   SpecOverlap     syncEmails runs that overlap on one service           *)
(*   SpecIdleOps     operations on the connection that is being monitored  *)
(*   SpecLabels      addLabel and removeLabel running at once on one email *)
(***************************************************************************)
EXTENDS Integers, Sequences, FiniteSets, TLC

(***************************************************************************)
(* Bounds of the model.                                                    *)
(***************************************************************************)
MaxChanges == 1        \* file changes in the listeners directory
MaxEvents == 2         \* checkEvent calls
MaxWatchCalls == 2     \* watchListeners calls by the host
MaxCalls == 2          \* context mutation calls
MaxRuns == 2           \* syncEmails runs
MaxUid == 2            \* messages of the remote mailbox
MaxClock == 1          \* last value of Date.now()
MaxStarts == 2         \* startIdleMonitoring calls by the host
MaxStops == 1          \* stopIdleMonitoring calls by the host
MaxErrors == 1         \* "error" events of the IMAP connection
MaxMail == 1           \* "mail" events of the IMAP connection
MaxOld == 6            \* stored messages inside the look-back window
MaxBurst == 2          \* new messages a "mail" event announces
MaxOps == 2            \* operations called on the shared connection
MaxWrites == 2         \* file changes while the watcher is watching
MaxStoreCalls == 2     \* calls of the methods of the store
MaxAddresses == 2      \* addresses in a from or to array of a search
MaxFetch == 2          \* UIDs given to fetchEmailsBatch
BatchSize == 1         \* the batchSize argument of fetchEmailsBatch
MaxChunks == 2         \* chunks the body stream of one message delivers
MaxHostCalls == 2      \* notify and callAgent calls of the handlers
MaxOverlap == 2        \* syncEmails runs in flight at once
MaxLabelOps == 2       \* label operations of a context in flight at once

(***************************************************************************)
(* Generic helpers.                                                        *)
(***************************************************************************)
Range(s) == { s[i] : i \in DOMAIN s }

\* String.prototype.endsWith / startsWith; a file name is a sequence of
\* one-character strings.
endsWith(s, suf) ==
  /\ Len(s) >= Len(suf)
  /\ SubSeq(s, Len(s) - Len(suf) + 1, Len(s)) = suf

startsWith(s, pre) ==
  /\ Len(s) >= Len(pre)
  /\ SubSeq(s, 1, Len(pre)) = pre

(***************************************************************************)
(* The listeners directory.                                                *)
(***************************************************************************)
FileUrgent == <<"u", ".", "t", "s">>
FileArchive == <<"a", ".", "t", "s">>
FileUnderscore == <<"_", "x", ".", "t", "s">>
FileDot == <<".", "h", ".", "t", "s">>
FileReadme == <<"r", ".", "m", "d">>

\* Order in which readdir lists the entries.
DirOrder == <<FileArchive, FileDot, FileReadme, FileUnderscore, FileUrgent>>

ListenerFiles == Range(DirOrder)

\* types.ts EventType (the kinds used by the files of the model and one
\* kind nobody listens to).
EventType == {"email_received", "email_starred", "scheduled_time"}

\* What a file of the directory exports when it is imported:
\*   ok       the import succeeds
\*   config   the module exports config
\*   handler  the module exports handler
\*   enabled  config.enabled
\*   event    config.event
Absent ==
  [present |-> FALSE, ok |-> FALSE, config |-> FALSE, handler |-> FALSE,
   enabled |-> FALSE, event |-> "email_received"]

Exports(ok, config, handler, enabled, event) ==
  [present |-> TRUE, ok |-> ok, config |-> config, handler |-> handler,
   enabled |-> enabled, event |-> event]

GoodReceived == Exports(TRUE, TRUE, TRUE, TRUE, "email_received")
GoodStarred == Exports(TRUE, TRUE, TRUE, TRUE, "email_starred")
Disabled == Exports(TRUE, TRUE, TRUE, FALSE, "email_received")
NoHandler == Exports(TRUE, TRUE, FALSE, TRUE, "email_received")
NoConfig == Exports(TRUE, FALSE, TRUE, FALSE, "email_received")
ImportFails == Exports(FALSE, FALSE, FALSE, FALSE, "email_received")

\* Contents a file may have.  Files the loader must ignore by name carry a
\* module that would be registered if it were imported.
ContentsOf(f) ==
  IF f \in {FileUrgent, FileArchive}
  THEN {Absent, GoodReceived, GoodStarred, Disabled, NoHandler, NoConfig,
        ImportFails}
  ELSE {Absent, GoodReceived}

\* Contents of the directory when the server starts: the files the name
\* filter must ignore are there.
InitContentsOf(f) ==
  IF f = FileUrgent THEN ContentsOf(f)
  ELSE IF f = FileArchive THEN {Absent, GoodReceived, ImportFails}
  ELSE {GoodReceived}

\* config.id of the listener a file defines ("Unique identifier for this
\* listener"): the file name without its extension.
ListenerId(f) == SubSeq(f, 1, Len(f) - 3)

ConfigOf(f, c) ==
  [id |-> ListenerId(f), name |-> f, enabled |-> c.enabled, event |-> c.event]

Payloads == {"m1", "m2"}
HandlerOutcomes == {"ok", "throws", "rejects"}

VARIABLES
  \* ---- listeners directory and registry (ListenersManager) ----
  dir,            \* file name -> exports of the file
  dirExists,      \* the listeners directory exists
  listeners,      \* this.listeners: Map in insertion order
  watcherActive,  \* this.watcherActive
  watchers,       \* directory watchers whose loop is running
  watchQueue,     \* change events the directory watcher has not delivered
  lpc,            \* loadAllListeners: "idle", "readdir", "files"
  lcaller,        \* who awaits the running load: "startup" or "watcher"
  lfiles,         \* result of readdir
  lidx,           \* position of the for loop over lfiles
  hpc,            \* host (server.ts): "boot", "loading", "up"
  changes,        \* number of file changes so far
  watchCalls,     \* number of watchListeners calls so far
  onChangeLog,    \* config lists handed to the onChange callback
  loadCount,      \* number of loads started
  loadStable,     \* no file changed since the running/last load started
  loadFailed,     \* readdir of the running/last load threw
  preSet,         \* active set when the running/last load started
  postSet,        \* active set when the last load finished
  \* ---- checkEvent ----
  cpc,            \* "idle", "run", "done"
  ckind,          \* event kind of the running/last checkEvent
  cdata,          \* its payload
  cqueue,         \* matchingListeners not yet invoked
  cstartSet,      \* this.listeners when checkEvent started
  cLoadId,        \* load running when checkEvent started (0: none)
  invoked,        \* handler invocations of the running/last checkEvent
  errorsLogged,   \* handler errors caught by the running/last checkEvent
  cresult,        \* "none", "resolved", "rejected"
  checkCount,     \* number of checkEvent calls so far
  \* ---- mail store and remote mailbox ----
  db,             \* tables of the database: emails, attachments
  imapLog,        \* commands ImapManager has issued for context mutations
  \* ---- a context mutation (createContext) ----
  xpc,            \* "idle", "imap" (awaiting ImapManager), "done"
  xop,            \* operation, message id and label of the running/last call
  xemail,         \* const email = await getEmailByMessageId(emailId)
  xresult,        \* "none", "ok", "throws"
  xerror,         \* what the call threw
  xDbBefore,      \* db when the running/last call started
  xLogBefore,     \* Len(imapLog) when the running/last call started
  xcalls,         \* number of context calls so far
  xprev,          \* the call before the running/last one, and how it ended
  \* ---- syncEmails (EmailSyncService) ----
  mailbox,        \* messages of the remote folder, in the order of the search
  sopts,          \* options of the runs
  now,            \* Date.now()
  spc,            \* "idle", "opening", "loop", "returned", "threw"
  suids,          \* uidsToProcess
  sidx,           \* i of the for loop (from 1)
  stats,          \* stats of the running/last run
  sDbBefore,      \* db when the running/last run started
  sdispatched,    \* emails handed to checkEvent('email_received') in the run
  sfaulty,        \* the environment failed the running/last run somewhere
  slast,          \* what the last step of the run did
  sprev,          \* db, stats and i before the last step of the run
  runs,           \* number of runs started
  runLog,         \* the finished runs
  \* ---- connection and IDLE monitoring (ImapManager) ----
  isConnected,        \* this.isConnected
  connectionPromise,  \* this.connectionPromise is not null
  isIdling,           \* this.isIdling
  onNewEmailCallback, \* this.onNewEmailCallback is not null
  currentFolder,      \* this.currentFolder
  handlers,           \* handlers startIdleMonitoring registered, per event
  onceHandlers,       \* once-handlers connect() registered, per event
  timers,             \* pending 5 s timers of the error handler
  iprocs,             \* startIdleMonitoring calls under way
  sockConnecting,     \* imap.connect() was called and is unanswered
  connectsInFlight,   \* calls of imap.connect() that are unanswered
  sockOpen,           \* the connection is up
  boxOpen,            \* a mailbox is open on the connection
  closePending,       \* an ended connection has not emitted end/close
  timeoutArmed,       \* the timeout of the pending connect() is armed
  idleErrors,         \* number of "error" events so far
  mailEvents,         \* number of "mail" events so far
  hostStarts,         \* number of startIdleMonitoring calls by the host
  hostStops,          \* number of stopIdleMonitoring calls
  stoppedByHost,      \* the host stopped and has not started since
  lastMail,           \* last "mail" event: its count, callback invocations
  \* ---- the auto_archive_newsletters handler ----
  npc,            \* "idle", "archiveEmail", "markAsRead", "notify", "done"
  nemail,         \* the email the handler was invoked with
  notifications,  \* what notificationCallback has received
  \* ---- operations on the shared connection (ImapManager) ----
  ops,            \* the operations called: method, folder, position
  imapQueue,      \* requests handed to the connection and not yet served
  selected,       \* the mailbox selected on the connection, and its mode
  issued,         \* the commands the server has executed, and where
  \* ---- calls of the store's methods (DatabaseManager, EmailDatabase) ----
  dbCall,         \* the last call: method and arguments
  dbBefore,       \* db when the last call started
  dbResult,       \* what the last call returned, or that it threw
  dbCalls,        \* number of calls so far
  \* ---- searchEmails (ImapManager) ----
  criteria,       \* the SearchCriteria searchEmails was called with
  imapCriteria,   \* what buildImapSearchCriteria returned (<<>>: not yet)
  \* ---- ImapManager.fetchEmailsBatch ----
  fuids,          \* the UIDs fetchEmailsBatch was called with
  fheadersOnly,   \* its headersOnly argument
  fi,             \* index i of its loop over the batches
  fetches,        \* per UID: the state of its fetchEmail promise
  results,        \* the UIDs of the result map (each with its message)
  fpc,            \* "idle", "batch" (a batch in flight), "returned"
  \* ---- notify and callAgent of a listener context ----
  notificationCallback,\* whether the host gave the constructor a callback
  delivered,      \* what the callback has received, in order
  hostCalls,      \* the context.notify and callAgent calls made, with their outcome
  \* ---- overlapping runs of syncEmails on one EmailSyncService ----
  oruns,          \* per overlapping syncEmails run: pc, options, uids, i, stats
  oconnected,     \* whether the connection of emailSearcher is up
  odispatched,    \* the emails handed to checkEvent, in order
  \* ---- addLabel and removeLabel of a context running at once ----
  labelOps        \* per context label operation in flight: pc, op, label, email, result

regVars ==
  <<dir, dirExists, listeners, watcherActive,
    watchers, watchQueue, lpc, lcaller,
    lfiles, lidx, hpc, changes, watchCalls, onChangeLog, loadCount,
    loadStable, loadFailed, preSet, postSet>>

checkVars ==
  <<cpc, ckind, cdata, cqueue, cstartSet, cLoadId, invoked, errorsLogged,
    cresult, checkCount>>

storeVars == <<db, imapLog>>

ctxVars ==
  <<xpc, xop, xemail, xresult, xerror, xDbBefore, xLogBefore, xcalls, xprev>>

syncVars ==
  <<mailbox, sopts, now, spc, suids, sidx, stats, sDbBefore, sdispatched,
    sfaulty, slast, sprev, runs, runLog>>

\* The variables the registry and the dispatcher do not touch.
idleVars ==
  <<isConnected, connectionPromise, isIdling, onNewEmailCallback,
    currentFolder, handlers, onceHandlers, timers, iprocs, sockConnecting,
    connectsInFlight,
    sockOpen, boxOpen, closePending, timeoutArmed, idleErrors, mailEvents,
    hostStarts, hostStops, stoppedByHost, lastMail>>

handlerVars == <<npc, nemail, notifications>>

opVars == <<ops, imapQueue, selected, issued>>

callVars == <<dbCall, dbBefore, dbResult, dbCalls>>

searchVars == <<criteria, imapCriteria>>

fetchVars == <<fuids, fheadersOnly, fi, fetches, results, fpc>>

hostVars == <<notificationCallback, delivered, hostCalls>>

overlapVars == <<oruns, oconnected, odispatched>>

labelVars == <<labelOps>>

mailVars ==
  <<storeVars, ctxVars, syncVars, idleVars, handlerVars, opVars, callVars,
    searchVars, fetchVars, hostVars, overlapVars, labelVars>>

\* The variables the mail pipeline does not touch.
listenerVars ==
  <<regVars, checkVars, handlerVars, opVars, callVars, searchVars, fetchVars,
  hostVars, overlapVars, labelVars>>

vars ==
  <<regVars, checkVars, storeVars, ctxVars, syncVars, idleVars, handlerVars,
    opVars, callVars, searchVars, fetchVars, hostVars, overlapVars,
    labelVars>>

(***************************************************************************)
(* ListenersManager: loading.                                              *)
(***************************************************************************)
\* Map.prototype.set on an insertion-ordered map keyed by config.id.
MapSet(map, module) ==
  IF \E i \in DOMAIN map : map[i].config.id = module.config.id
  THEN [i \in DOMAIN map |->
          IF map[i].config.id = module.config.id THEN module ELSE map[i]]
  ELSE Append(map, module)

\* fs readdir: the entries present in the directory.
readdir(d) == SelectSeq(DirOrder, LAMBDA f : d[f].present)

\* The name filter without its test for a leading underscore.
IsListenerFileName_NoUnderscoreTest(file) ==
  /\ endsWith(file, <<".", "t", "s">>)
  /\ ~startsWith(file, <<".">>)

\* The name filter of loadAllListeners.
IsListenerFileName(file) ==
  /\ endsWith(file, <<".", "t", "s">>)
  /\ ~startsWith(file, <<"_">>)
  /\ ~startsWith(file, <<".">>)

\* A loadListener that registers a module whatever config.enabled is.
loadListener_NoEnabledTest(map, filename, exports) ==
  IF ~exports.present \/ ~exports.ok THEN map
  ELSE IF ~exports.config \/ ~exports.handler THEN map
  ELSE MapSet(map, [config |-> ConfigOf(filename, exports),
                    handler |-> filename])

\* loadListener(filename): the map after the file has been imported.
loadListener(map, filename, exports) ==
  IF ~exports.present \/ ~exports.ok THEN map          \* import throws
  ELSE IF ~exports.config \/ ~exports.handler THEN map \* invalid listener
  ELSE IF exports.enabled
       THEN MapSet(map, [config |-> ConfigOf(filename, exports),
                         handler |-> filename])
       ELSE map                                        \* disabled

\* Array.from(this.listeners.values()).map(l => l.config)
getAllListeners(map) == [i \in DOMAIN map |-> map[i].config]

\* A load that does not clear the map before it refills it.
LoadStart_NoClear(caller) ==
  /\ lpc = "idle"
  /\ preSet' = listeners
  /\ listeners' = listeners
  /\ lpc' = "readdir"
  /\ lcaller' = caller
  /\ lfiles' = <<>>
  /\ lidx' = 1
  /\ loadCount' = loadCount + 1
  /\ loadStable' = TRUE
  /\ loadFailed' = FALSE

\* loadAllListeners up to its first await: this.listeners.clear().
LoadStart(caller) ==
  /\ lpc = "idle"
  /\ preSet' = listeners
  /\ listeners' = <<>>
  /\ lpc' = "readdir"
  /\ lcaller' = caller
  /\ lfiles' = <<>>
  /\ lidx' = 1
  /\ loadCount' = loadCount + 1
  /\ loadStable' = TRUE
  /\ loadFailed' = FALSE

\* The host starts the load of server.ts line 53.
StartupLoad ==
  /\ hpc = "boot"
  /\ LoadStart("startup")
  /\ hpc' = "loading"
  /\ UNCHANGED <<dir, dirExists, watcherActive, watchers, watchQueue, changes,
                 watchCalls, onChangeLog, postSet, checkVars, mailVars>>

\* The load returns: its caller continues.
LoadReturn ==
  /\ lpc' = "idle"
  /\ postSet' = listeners'
  /\ IF lcaller = "startup"
     THEN /\ hpc' = "up"
          /\ UNCHANGED onChangeLog
     ELSE /\ onChangeLog' = Append(onChangeLog, getAllListeners(listeners'))
          /\ UNCHANGED hpc

\* await readdir(this.listenersDir); a missing directory throws and the
\* catch of loadAllListeners ends the load.
LoadReaddir ==
  /\ lpc = "readdir"
  /\ IF dirExists
     THEN /\ lfiles' = readdir(dir)
          /\ lpc' = "files"
          /\ UNCHANGED <<listeners, loadFailed, postSet, hpc, onChangeLog>>
     ELSE /\ loadFailed' = TRUE
          /\ UNCHANGED <<listeners, lfiles>>
          /\ LoadReturn
  /\ UNCHANGED <<dir, dirExists, watcherActive,
                 watchers, watchQueue, lcaller, lidx,
                 changes, watchCalls, loadCount, loadStable, preSet,
                 checkVars, mailVars>>

\* One turn of the for loop: the name filter and await loadListener(file).
LoadFile ==
  /\ lpc = "files"
  /\ lidx <= Len(lfiles)
  /\ LET file == lfiles[lidx] IN
       listeners' = IF IsListenerFileName(file)
                    THEN loadListener(listeners, file, dir[file])
                    ELSE listeners
  /\ lidx' = lidx + 1
  /\ UNCHANGED <<dir, dirExists, watcherActive,
                 watchers, watchQueue, lpc, lcaller,
                 lfiles, hpc, changes, watchCalls, onChangeLog, loadCount,
                 loadStable, loadFailed, preSet, postSet, checkVars, mailVars>>

\* The loop is over: return the configs.
LoadFinish ==
  /\ lpc = "files"
  /\ lidx > Len(lfiles)
  /\ UNCHANGED listeners
  /\ LoadReturn
  /\ UNCHANGED <<dir, dirExists, watcherActive,
                 watchers, watchQueue, lcaller, lfiles,
                 lidx, changes, watchCalls, loadCount, loadStable,
                 loadFailed, preSet, checkVars, mailVars>>

\* The for loop of loadAllListeners over the entries from the i-th on, in
\* a directory that does not change meanwhile.
RECURSIVE LoadFiles(_, _, _, _)
LoadFiles(map, files, i, d) ==
  IF i > Len(files) THEN map
  ELSE LoadFiles(IF IsListenerFileName(files[i])
                 THEN loadListener(map, files[i], d[files[i]])
                 ELSE map,
                 files, i + 1, d)

\* this.listeners after loadAllListeners has run over a directory that does
\* not change meanwhile.
loadAllListeners(d) == LoadFiles(<<>>, readdir(d), 1, d)

(***************************************************************************)
(* ListenersManager: watching.                                             *)
(***************************************************************************)
\* A watchListeners without the test of watcherActive: every call watches.
WatchListeners_NoGuard ==
  /\ hpc = "up"
  /\ watchCalls < MaxWatchCalls
  /\ watchCalls' = watchCalls + 1
  /\ watcherActive' = dirExists
  /\ watchers' = IF dirExists THEN watchers + 1 ELSE watchers
  /\ UNCHANGED <<dir, dirExists, listeners, watchQueue, lpc, lcaller, lfiles,
                 lidx, hpc, changes, onChangeLog, loadCount, loadStable,
                 loadFailed, preSet, postSet, checkVars, mailVars>>

\* watchListeners(onChange): a second call returns at once; watching a
\* missing directory throws and the catch resets watcherActive.
WatchListeners ==
  /\ hpc = "up"
  /\ watchCalls < MaxWatchCalls
  /\ watchCalls' = watchCalls + 1
  /\ watcherActive' = IF watcherActive THEN TRUE ELSE dirExists
  /\ watchers' = IF ~watcherActive /\ dirExists THEN watchers + 1 ELSE watchers
  /\ UNCHANGED <<dir, dirExists, listeners, watchQueue, lpc, lcaller, lfiles,
                 lidx, hpc, changes, onChangeLog, loadCount, loadStable,
                 loadFailed, preSet, postSet, checkVars, mailVars>>

\* A file of the directory is written, created or removed; a running
\* watcher gets a change event carrying the file name.
WriteFile(f, c) ==
  /\ dirExists
  /\ c \in ContentsOf(f)
  /\ c # dir[f]
  /\ dir' = [dir EXCEPT ![f] = c]
  /\ changes' = changes + 1
  /\ watchQueue' = watchQueue \o [i \in 1..watchers |-> f]
  /\ loadStable' = FALSE
  /\ UNCHANGED <<dirExists, listeners, watcherActive,
                 watchers, lpc, lcaller, lfiles,
                 lidx, hpc, watchCalls, onChangeLog, loadCount, loadFailed,
                 preSet, postSet, checkVars, mailVars>>

\* A change of the directory at any time from the start of the server.
FileChange(f, c) ==
  /\ changes < MaxChanges
  /\ WriteFile(f, c)

\* A change of the directory while the watcher is watching it.
WatchedChange(f, c) ==
  /\ watcherActive
  /\ changes < MaxWrites
  /\ WriteFile(f, c)

\* A watcher loop that reloads whatever the name of the changed file is.
WatchEvent_AnyName ==
  /\ watcherActive
  /\ watchQueue # <<>>
  /\ lpc = "idle"
  /\ watchQueue' = Tail(watchQueue)
  /\ preSet' = listeners
  /\ listeners' = <<>>
  /\ lpc' = "readdir"
  /\ lcaller' = "watcher"
  /\ lfiles' = <<>>
  /\ lidx' = 1
  /\ loadCount' = loadCount + 1
  /\ loadStable' = TRUE
  /\ loadFailed' = FALSE
  /\ UNCHANGED <<dir, dirExists, watcherActive,
                 watchers, hpc, changes, watchCalls,
                 onChangeLog, postSet, checkVars, mailVars>>

\* One turn of `for await (const event of watcher)`: a .ts file name starts
\* a full reload, any other name is only logged.  The loop takes the next
\* event after the reload of the previous one has returned.
WatchEvent ==
  /\ watcherActive
  /\ watchQueue # <<>>
  /\ lpc = "idle"
  /\ watchQueue' = Tail(watchQueue)
  /\ IF endsWith(Head(watchQueue), <<".", "t", "s">>)
     THEN LoadStart("watcher")
     ELSE UNCHANGED <<listeners, lpc, lcaller, lfiles, lidx, loadCount,
                      loadStable, loadFailed, preSet>>
  /\ UNCHANGED <<dir, dirExists, watcherActive,
                 watchers, hpc, changes, watchCalls,
                 onChangeLog, postSet, checkVars, mailVars>>

(***************************************************************************)
(* ListenersManager: dispatching.                                          *)
(***************************************************************************)
\* createContext(listenerConfig): the context is bound to the config it is
\* built from (notify reports listenerConfig.id and listenerConfig.name).
createContext(listenerConfig) ==
  [listenerId |-> listenerConfig.id, listenerName |-> listenerConfig.name]

\* The listeners of checkEvent without the filter on config.event.
matchingListeners_NoFilter(map, event) == map

\* Array.from(this.listeners.values()).filter(l => l.config.event === event)
matchingListeners(map, event) ==
  SelectSeq(map, LAMBDA l : l.config.event = event)

\* The loop of checkEvent without its try/catch: a failing handler ends
\* checkEvent with a rejection.
AfterHandler_NoCatch(outcome, rest) ==
  IF outcome = "ok"
  THEN [queue |-> rest,
        pc |-> IF rest = <<>> THEN "done" ELSE "run",
        result |-> IF rest = <<>> THEN "resolved" ELSE "none",
        logged |-> 0]
  ELSE [queue |-> <<>>, pc |-> "done", result |-> "rejected", logged |-> 0]

\* The try/catch around `await listener.handler(data, context)`: whatever
\* the handler did, the loop goes on with the listeners that are left and
\* checkEvent resolves when none is left.
AfterHandler(outcome, rest) ==
  [queue |-> rest,
   pc |-> IF rest = <<>> THEN "done" ELSE "run",
   result |-> IF rest = <<>> THEN "resolved" ELSE "none",
   logged |-> IF outcome = "ok" THEN 0 ELSE 1]

\* checkEvent(event, data) up to its first await.
CheckStart(event, data) ==
  /\ cpc \in {"idle", "done"}
  /\ checkCount < MaxEvents
  /\ checkCount' = checkCount + 1
  /\ ckind' = event
  /\ cdata' = data
  /\ cstartSet' = listeners
  /\ cLoadId' = IF lpc = "idle" THEN 0 ELSE loadCount
  /\ invoked' = <<>>
  /\ errorsLogged' = 0
  /\ LET matching == matchingListeners(listeners, event) IN
       /\ cqueue' = matching
       /\ cpc' = IF Len(matching) = 0 THEN "done" ELSE "run"
       /\ cresult' = IF Len(matching) = 0 THEN "resolved" ELSE "none"
  /\ UNCHANGED <<regVars, mailVars>>

\* One turn of the for loop of checkEvent: build the context, await the
\* handler, which returns, throws or rejects.
HandlerRun(outcome) ==
  /\ cpc = "run"
  /\ cqueue # <<>>
  /\ LET listener == Head(cqueue)
         after == AfterHandler(outcome, Tail(cqueue))
     IN
       /\ invoked' = Append(invoked,
                            [handler |-> listener.handler,
                             data |-> cdata,
                             context |-> createContext(listener.config),
                             outcome |-> outcome])
       /\ cqueue' = after.queue
       /\ cpc' = after.pc
       /\ cresult' = after.result
       /\ errorsLogged' = errorsLogged + after.logged
  /\ UNCHANGED <<ckind, cdata, cstartSet, cLoadId, checkCount, regVars,
                 mailVars>>

(***************************************************************************)
(* Mail store (database-manager.ts, email-db.ts).                          *)
(***************************************************************************)
\* A message id: the Message-ID header of a message, no header at all, or
\* the id syncEmails makes up from the UID and Date.now().
Hdr(n) == [kind |-> "hdr", name |-> n, uid |-> 0, at |-> 0]
NoMessageId == [kind |-> "none", name |-> "", uid |-> 0, at |-> 0]
Generated(uid, at) == [kind |-> "gen", name |-> "", uid |-> uid, at |-> at]

MsgA == Hdr("a")
MsgB == Hdr("b")

\* NULL in the imap_uid column; insertEmail stores `email.imap_uid || null`.
NullUid == 0
\* JavaScript undefined, and !v for a number or undefined.
Undefined == -1
Falsy(v) == v = Undefined \/ v = 0

Inbox == "INBOX"
AllMail == "[Gmail]/All Mail"
Labels == {"work", "news"}

\* The labels column: NULL or the JSON text of an array of strings.
NullLabels == [null |-> TRUE, items |-> <<>>]
JSONstringify(items) == [null |-> FALSE, items |-> items]
JSONparse(text) == text.items

\* NULL in a TEXT column; `v || null` stores it for '' and undefined alike.
NullText == ""
\* fromAddress of a message whose From header does not parse.
UnknownSender == "unknown@unknown.com"

\* A row of the emails table (the columns the operations below use); id
\* is the AUTOINCREMENT key, given when the row is stored.
EmailRow(message_id, imap_uid, folder, labels) ==
  [id |-> NullUid, message_id |-> message_id, imap_uid |-> imap_uid,
   folder |-> folder, subject |-> NullText, from_address |-> UnknownSender,
   body_text |-> NullText,
   is_read |-> FALSE, is_starred |-> FALSE, is_important |-> FALSE,
   labels |-> labels, attachment_count |-> 0, updated_at |-> 0]

\* A text property of an object, NULL when the object lacks it.
Text(object, property) ==
  IF property \in DOMAIN object THEN object[property] ELSE NullText

\* The emails_fts entry the insert trigger writes for a row.
FtsEntry(row) ==
  [message_id |-> row.message_id, subject |-> row.subject,
   from_address |-> row.from_address, body_text |-> row.body_text,
   recipient_addresses |-> <<>>, attachment_names |-> <<>>]

\* Trigger emails_fts_insert, AFTER INSERT ON emails.
emails_fts_insert(d, new) ==
  [d EXCEPT !.emails_fts = Append(@, FtsEntry(new))]

\* A schema without the update trigger.
emails_fts_update_Missing(d, new) == d

\* Trigger emails_fts_update, AFTER UPDATE ON emails.
emails_fts_update(d, new) ==
  [d EXCEPT !.emails_fts =
     [i \in DOMAIN @ |->
        IF @[i].message_id = new.message_id
        THEN [@[i] EXCEPT !.subject = new.subject,
                          !.from_address = new.from_address,
                          !.body_text = new.body_text]
        ELSE @[i]]]

\* Trigger emails_fts_delete, AFTER DELETE ON emails.
emails_fts_delete(d, old) ==
  [d EXCEPT !.emails_fts =
     SelectSeq(@, LAMBDA entry : entry.message_id # old.message_id)]

\* The database file that holds `rows`, each inserted under the schema of
\* EmailDatabase: keys in insertion order, one index entry per row, and no
\* to_addresses, cc_addresses, bcc_addresses columns in emails.
Stored(rows) ==
  [emails |-> [i \in DOMAIN rows |-> [rows[i] EXCEPT !.id = i]],
   recipients |-> <<>>,
   attachments |-> <<>>,
   emails_fts |-> [i \in DOMAIN rows |-> FtsEntry(rows[i])],
   seq |-> Len(rows),
   address_columns |-> FALSE]

\* Reading a property of an object: undefined when the object lacks it.
Get(object, property) ==
  IF property \in DOMAIN object THEN object[property] ELSE Undefined

\* The mapper with the imap_uid column copied to imapUid.
mapRowToEmailRecord_WithUid(row) ==
  [id |-> row.id,
   messageId |-> row.message_id,
   imapUid |-> row.imap_uid,
   subject |-> row.subject,
   fromAddress |-> row.from_address,
   bodyText |-> row.body_text,
   isRead |-> row.is_read,
   isStarred |-> row.is_starred,
   isImportant |-> row.is_important,
   attachmentCount |-> row.attachment_count,
   folder |-> row.folder,
   labels |-> IF ~row.labels.null THEN JSONparse(row.labels) ELSE <<>>]

\* mapRowToEmailRecord(row): the record has no imapUid; the mapper does not
\* copy the imap_uid column.
mapRowToEmailRecord(row) ==
  [id |-> row.id,
   messageId |-> row.message_id,
   subject |-> row.subject,
   fromAddress |-> row.from_address,
   bodyText |-> row.body_text,
   isRead |-> row.is_read,
   isStarred |-> row.is_starred,
   isImportant |-> row.is_important,
   attachmentCount |-> row.attachment_count,
   folder |-> row.folder,
   labels |-> IF ~row.labels.null THEN JSONparse(row.labels) ELSE <<>>]

\* null of getEmailByMessageId.
Null == [null |-> TRUE]

\* No method of the store has been called yet.
NoCall == [op |-> "none"]

\* getEmailByMessageId(messageId)
getEmailByMessageId(d, messageId) ==
  LET hits == SelectSeq(d.emails, LAMBDA row : row.message_id = messageId) IN
    IF hits = <<>> THEN Null ELSE mapRowToEmailRecord(hits[1])

\* An update that writes every flag column, a flag the caller left out as
\* 0.
updateEmailFlags_EveryFlag(d, messageId, updates) ==
  LET has(field) == field \in DOMAIN updates
      set(row) ==
        [row EXCEPT
           !.is_read = IF has("isRead") THEN updates.isRead ELSE FALSE,
           !.is_starred = IF has("isStarred") THEN updates.isStarred
                          ELSE FALSE,
           !.is_important =
              IF has("isImportant") THEN updates.isImportant ELSE FALSE,
           !.labels =
              IF has("labels") THEN JSONstringify(updates.labels) ELSE @,
           !.folder = IF has("folder") THEN updates.folder ELSE @,
           !.updated_at = @ + 1]
  IN
    IF DOMAIN updates = {} THEN d
    ELSE [d EXCEPT !.emails =
            [i \in DOMAIN d.emails |->
               IF d.emails[i].message_id = messageId
               THEN set(d.emails[i]) ELSE d.emails[i]]]

\* updateEmailFlags(messageId, updates): `updates` is a record holding the
\* fields the caller provided.
updateEmailFlags(d, messageId, updates) ==
  LET has(field) == field \in DOMAIN updates
      setClauses ==
        Cardinality(DOMAIN updates
                      \cap {"isRead", "isStarred", "isImportant", "labels",
                            "folder"}) + 1
      set(row) ==
        [row EXCEPT
           !.is_read = IF has("isRead") THEN updates.isRead ELSE @,
           !.is_starred = IF has("isStarred") THEN updates.isStarred ELSE @,
           !.is_important =
              IF has("isImportant") THEN updates.isImportant ELSE @,
           !.labels =
              IF has("labels") THEN JSONstringify(updates.labels) ELSE @,
           !.folder = IF has("folder") THEN updates.folder ELSE @,
           !.updated_at = @ + 1]
  IN
    IF setClauses = 1 THEN d
    ELSE [d EXCEPT
            !.emails =
              [i \in DOMAIN d.emails |->
                 IF d.emails[i].message_id = messageId
                 THEN set(d.emails[i]) ELSE d.emails[i]],
            !.emails_fts =
              IF \E i \in DOMAIN d.emails :
                   d.emails[i].message_id = messageId
              THEN emails_fts_update(
                     d, CHOOSE row \in Range(d.emails) :
                          row.message_id = messageId).emails_fts
              ELSE @]

(***************************************************************************)
(* ImapManager: the mutations the context uses.                            *)
(***************************************************************************)
ContextOps ==
  {"archiveEmail", "starEmail", "unstarEmail", "markAsRead", "markAsUnread",
   "addLabel", "removeLabel"}

\* The command each ImapManager method issues after openMailbox(folder, false).
ImapCommand(op, label) ==
  CASE op = "archiveEmail" -> [cmd |-> "move", arg |-> AllMail]
    [] op = "starEmail" -> [cmd |-> "addFlags", arg |-> "\\Flagged"]
    [] op = "unstarEmail" -> [cmd |-> "delFlags", arg |-> "\\Flagged"]
    [] op = "markAsRead" -> [cmd |-> "addFlags", arg |-> "\\Seen"]
    [] op = "markAsUnread" -> [cmd |-> "delFlags", arg |-> "\\Seen"]
    [] op = "addLabel" -> [cmd |-> "addFlags", arg |-> label]
    [] op = "removeLabel" -> [cmd |-> "delFlags", arg |-> label]

ImapOutcomes == {"ok", "connect_fails", "open_fails", "command_fails"}

\* markAsRead, markAsUnread, starEmail, unstarEmail, archiveEmail, addLabel,
\* removeLabel of ImapManager: ensureConnection, openMailbox in read-write
\* mode, then the command.  The result is the log of issued commands.
ImapMutation(log, op, uid, folder, label, outcome) ==
  LET open(ok) ==
        [cmd |-> "openBox", uid |-> 0, folder |-> folder, arg |-> "rw",
         ok |-> ok]
      command(ok) ==
        [cmd |-> ImapCommand(op, label).cmd, uid |-> uid, folder |-> folder,
         arg |-> ImapCommand(op, label).arg, ok |-> ok]
  IN
    CASE outcome = "connect_fails" -> log
      [] outcome = "open_fails" -> Append(log, open(FALSE))
      [] outcome = "command_fails" -> log \o <<open(TRUE), command(FALSE)>>
      [] outcome = "ok" -> log \o <<open(TRUE), command(TRUE)>>

(***************************************************************************)
(* createContext: the email mutations of a listener context.               *)
(***************************************************************************)
\* Array.prototype.includes
includes(items, x) == \E i \in DOMAIN items : items[i] = x

\* The call of updateEmailFlags that follows the IMAP operation: whether
\* there is one, and its updates.
LocalMutation(op, email, label) ==
  CASE op = "archiveEmail" -> [call |-> TRUE, updates |-> [folder |-> AllMail]]
    [] op = "starEmail" -> [call |-> TRUE, updates |-> [isStarred |-> TRUE]]
    [] op = "unstarEmail" -> [call |-> TRUE, updates |-> [isStarred |-> FALSE]]
    [] op = "markAsRead" -> [call |-> TRUE, updates |-> [isRead |-> TRUE]]
    [] op = "markAsUnread" -> [call |-> TRUE, updates |-> [isRead |-> FALSE]]
    [] op = "addLabel" ->
         [call |-> ~includes(email.labels, label),
          updates |-> [labels |-> Append(email.labels, label)]]
    [] op = "removeLabel" ->
         [call |-> TRUE,
          updates |->
            [labels |-> SelectSeq(email.labels, LAMBDA l : l # label)]]

\* A context mutation that writes the store as soon as the email is found,
\* before it looks at the UID.
CtxResolve_WritesFirst(d, op, emailId, label) ==
  LET email == getEmailByMessageId(d, emailId) IN
    IF email = Null
    THEN [pc |-> "done", result |-> "throws", error |-> "Email not found",
          email |-> email, db |-> d]
    ELSE LET local == LocalMutation(op, email, label)
             written == IF local.call
                        THEN updateEmailFlags(d, emailId, local.updates)
                        ELSE d
         IN IF Falsy(Get(email, "imapUid"))
            THEN [pc |-> "done", result |-> "throws",
                  error |-> "Email missing IMAP UID", email |-> email,
                  db |-> written]
            ELSE [pc |-> "imap", result |-> "none", error |-> "",
                  email |-> email, db |-> written]

\* A context mutation without the test `if (!email.imapUid)`.
CtxResolve_NoUidTest(d, op, emailId, label) ==
  LET email == getEmailByMessageId(d, emailId) IN
    IF email = Null
    THEN [pc |-> "done", result |-> "throws", error |-> "Email not found",
          email |-> email, db |-> d]
    ELSE [pc |-> "imap", result |-> "none", error |-> "", email |-> email,
          db |-> d]

\* A context mutation up to `await this.imapManager.<op>(...)`: resolve the
\* message id, throw when the email is not found or has no UID.
CtxResolve(d, op, emailId, label) ==
  LET email == getEmailByMessageId(d, emailId) IN
    IF email = Null
    THEN [pc |-> "done", result |-> "throws", error |-> "Email not found",
          email |-> email, db |-> d]
    ELSE IF Falsy(Get(email, "imapUid"))
    THEN [pc |-> "done", result |-> "throws",
          error |-> "Email missing IMAP UID", email |-> email, db |-> d]
    ELSE [pc |-> "imap", result |-> "none", error |-> "", email |-> email,
          db |-> d]

\* A context mutation after the await: a rejected IMAP operation is
\* rethrown, a resolved one is followed by the local mutation.
CtxSettle(d, log, op, emailId, label, email, outcome) ==
  LET newLog == ImapMutation(log, op, Get(email, "imapUid"), email.folder,
                             label, outcome)
      local == LocalMutation(op, email, label)
  IN
    IF outcome # "ok"
    THEN [result |-> "throws", error |-> outcome, db |-> d, log |-> newLog]
    ELSE [result |-> "ok", error |-> "",
          db |-> IF local.call
                 THEN updateEmailFlags(d, emailId, local.updates) ELSE d,
          log |-> newLog]

\* One step of archiveEmail, starEmail, unstarEmail, markAsRead,
\* markAsUnread, addLabel or removeLabel of the context: the part before the
\* await of the IMAP operation, or the part after it.
ContextMutation(op, emailId, label, outcome) ==
  /\ IF xpc # "imap"
     THEN /\ xcalls < MaxCalls
          /\ xcalls' = xcalls + 1
          /\ xop' = [op |-> op, emailId |-> emailId, label |-> label]
          /\ xprev' = [op |-> IF xcalls = 0 THEN "none" ELSE xop.op,
                       emailId |-> xop.emailId, label |-> xop.label,
                       result |-> xresult, error |-> xerror]
          /\ xDbBefore' = db
          /\ xLogBefore' = Len(imapLog)
          /\ LET r == CtxResolve(db, op, emailId, label) IN
               /\ xpc' = r.pc
               /\ xresult' = r.result
               /\ xerror' = r.error
               /\ xemail' = r.email
               /\ db' = r.db
          /\ UNCHANGED imapLog
     ELSE /\ xop = [op |-> op, emailId |-> emailId, label |-> label]
          /\ LET r == CtxSettle(db, imapLog, op, emailId, label, xemail,
                                outcome)
             IN
               /\ xpc' = "done"
               /\ xresult' = r.result
               /\ xerror' = r.error
               /\ db' = r.db
               /\ imapLog' = r.log
          /\ UNCHANGED <<xop, xemail, xDbBefore, xLogBefore, xcalls, xprev>>
  /\ UNCHANGED <<listenerVars, syncVars, idleVars>>

\* The label argument of an operation ("" when it takes none).
LabelArgs(op) == IF op \in {"addLabel", "removeLabel"} THEN Labels ELSE {""}

\* Rows a message may have in the store: none, a legacy row without UID, a
\* synced row, an archived and labelled row.
RowsOf(messageId, uid) ==
  {<<>>,
   <<EmailRow(messageId, NullUid, Inbox, NullLabels)>>,
   <<EmailRow(messageId, uid, Inbox, NullLabels)>>,
   <<EmailRow(messageId, uid, AllMail, JSONstringify(<<"work">>))>>}

StoreRest ==
  /\ db = Stored(<<>>)
  /\ imapLog = <<>>

CtxRest ==
  /\ xpc = "idle"
  /\ xop = [op |-> "archiveEmail", emailId |-> MsgA, label |-> ""]
  /\ xemail = Null
  /\ xresult = "none"
  /\ xerror = ""
  /\ xDbBefore = db
  /\ xLogBefore = 0
  /\ xcalls = 0
  /\ xprev = [op |-> "none", emailId |-> MsgA, label |-> "", result |-> "none",
              error |-> ""]

(***************************************************************************)
(* EmailDatabase.insertEmail and EmailSyncService.syncEmails.              *)
(***************************************************************************)
Min(a, b) == IF a < b THEN a ELSE b

\* A message of the remote mailbox: its UID, its Message-ID header (or
\* none) and the number of its attachments.
Message(uid, messageId, attachments) ==
  [uid |-> uid, messageId |-> messageId, attachments |-> attachments]

\* The mailboxes of the model: MaxUid messages at most, UIDs ascending.
Mailboxes ==
  UNION {[1..n -> {MsgA, MsgB, NoMessageId} \X {0, 1}] : n \in 1..MaxUid}

\* The options of a run: limit (undefined, or a number), hasAttachments.
SyncOptionSets ==
  [limit : {Undefined} \cup 0..1,
   hasAttachments : {"undefined", "true", "false"}]

\* emailSearcher.searchEmails(criteria): the UIDs of the mailbox.
searchEmails(box) == [i \in DOMAIN box |-> box[i].uid]

\* emailSearcher.fetchEmail(uid)
fetchEmail(box, uid) == box[CHOOSE i \in DOMAIN box : box[i].uid = uid]

\* uids.slice(0, options.limit || uids.length)
uidsToProcess(uids, options) ==
  SubSeq(uids, 1,
         Min(Len(uids), IF Falsy(options.limit) THEN Len(uids)
                        ELSE options.limit))

\* extractAttachments(rawEmail, 0)
extractAttachments(rawEmail) ==
  [k \in 1..rawEmail.attachments |->
     [email_id |-> 0, filename |-> ToString(k)]]

\* The statements of insertEmail's transaction, in order, given that the
\* insert into emails succeeds: [1] the emails row and its index entry,
\* [2] the recipients, [3] the attachments, [4] the update of the index
\* entry with the recipient addresses and the attachment names.
insertStatements(d, email, recipients, attachments) ==
  LET emailId == d.seq + 1
      row == [EmailRow(email.message_id,
                       IF Falsy(email.imap_uid) THEN NullUid
                       ELSE email.imap_uid,
                       email.folder, NullLabels)
                EXCEPT !.id = emailId,
                       !.subject = Text(email, "subject"),
                       !.body_text = Text(email, "body_text"),
                       !.is_read = email.is_read,
                       !.attachment_count = Len(attachments)]
      withEmail ==
        emails_fts_insert([d EXCEPT !.emails = Append(@, row),
                                    !.seq = emailId], row)
      withRecipients ==
        [withEmail EXCEPT !.recipients =
           @ \o [k \in DOMAIN recipients |->
                   [recipients[k] EXCEPT !.email_id = emailId]]]
      withAttachments ==
        [withRecipients EXCEPT !.attachments =
           @ \o [k \in DOMAIN attachments |->
                   [attachments[k] EXCEPT !.email_id = emailId]]]
      withAll ==
        [withAttachments EXCEPT !.emails_fts =
           [i \in DOMAIN @ |->
              IF @[i].message_id = email.message_id
              THEN [@[i] EXCEPT
                      !.recipient_addresses =
                         [k \in DOMAIN recipients |-> recipients[k].address],
                      !.attachment_names =
                         [k \in DOMAIN attachments |->
                            attachments[k].filename]]
              ELSE @[i]]]
  IN <<withEmail, withRecipients, withAttachments, withAll>>

\* The statement of an email write that fails ("none": all succeed).
Statements == {"none", "emails", "recipients", "attachments", "emails_fts"}

\* What the statements before the failing one have written.
WrittenBefore(d, steps, fault) ==
  CASE fault = "emails" -> d
    [] fault = "recipients" -> steps[1]
    [] fault = "attachments" -> steps[2]
    [] fault = "emails_fts" -> steps[3]

\* insertEmail without the transaction: a statement that fails after the
\* insert into emails leaves the emails row behind.
insertEmail_NoTransaction(d, email, recipients, attachments, fault) ==
  LET steps == insertStatements(d, email, recipients, attachments) IN
    IF \E i \in DOMAIN d.emails : d.emails[i].message_id = email.message_id
    THEN [threw |-> TRUE, db |-> d, id |-> NullUid]
    ELSE IF fault # "none"
         THEN [threw |-> TRUE, db |-> WrittenBefore(d, steps, fault),
               id |-> NullUid]
         ELSE [threw |-> FALSE, db |-> steps[4], id |-> d.seq + 1]

\* insertEmail on a table whose message_id column is not UNIQUE.
insertEmail_NoUnique(d, email, recipients, attachments, fault) ==
  LET steps == insertStatements(d, email, recipients, attachments) IN
    IF fault # "none"
    THEN [threw |-> TRUE, db |-> d, id |-> NullUid]
    ELSE [threw |-> FALSE, db |-> steps[4], id |-> d.seq + 1]

\* insertEmail(email, recipients, attachments): one transaction.  The
\* insert into emails throws on a message_id already stored (UNIQUE);
\* `fault` is the statement that fails.  A throw rolls back.
insertEmail(d, email, recipients, attachments, fault) ==
  LET steps == insertStatements(d, email, recipients, attachments) IN
    IF \E i \in DOMAIN d.emails : d.emails[i].message_id = email.message_id
    THEN [threw |-> TRUE, db |-> d, id |-> NullUid]
    ELSE IF fault # "none"
         THEN [threw |-> TRUE, db |-> d, id |-> NullUid]
         ELSE [threw |-> FALSE, db |-> steps[4], id |-> d.seq + 1]

\* A loop body that hands the message to checkEvent before it knows that
\* the insert has committed.
processUid_DispatchBeforeInsert(d, options, uid, box, outcome, bind, t) ==
  LET rawEmail == fetchEmail(box, uid)
      existing ==
        /\ rawEmail.messageId # NoMessageId
        /\ \E i \in DOMAIN d.emails :
             d.emails[i].message_id = rawEmail.messageId
      hasAttachments == rawEmail.attachments > 0
      emailRecord ==
        [message_id |-> IF rawEmail.messageId # NoMessageId
                        THEN rawEmail.messageId ELSE Generated(uid, t),
         imap_uid |-> uid,
         is_read |-> FALSE,
         folder |-> Inbox,
         attachment_count |-> rawEmail.attachments]
      inserted ==
        insertEmail(d, emailRecord, <<>>, extractAttachments(rawEmail),
                    IF outcome = "store_fails" THEN "emails_fts" ELSE "none")
      emailForListener ==
        [messageId |-> emailRecord.message_id, uid |-> emailRecord.imap_uid]
  IN
    IF outcome = "fetch_fails"
    THEN [kind |-> "fetch_fails", db |-> d, events |-> <<>>]
    ELSE IF rawEmail.messageId = NoMessageId /\ bind = "throws"
    THEN [kind |-> "lookup_fails", db |-> d, events |-> <<>>]
    ELSE IF existing
    THEN [kind |-> "skipped", db |-> d, events |-> <<>>]
    ELSE IF options.hasAttachments # "undefined"
            /\ (options.hasAttachments = "true") # hasAttachments
    THEN [kind |-> "skipped", db |-> d, events |-> <<>>]
    ELSE IF inserted.threw
    THEN [kind |-> "store_fails", db |-> inserted.db,
          events |-> <<emailForListener>>]
    ELSE [kind |-> "synced", db |-> inserted.db,
          events |-> <<emailForListener>>]

\* The body of the for loop of syncEmails for one UID.  `outcome` is what
\* the environment does ("ok", "fetch_fails", "store_fails"), `bind` what
\* the driver does with an undefined parameter ("null": binds NULL,
\* "throws"), `t` is Date.now().
processUid(d, options, uid, box, outcome, bind, t) ==
  LET rawEmail == fetchEmail(box, uid)
      existing ==
        /\ rawEmail.messageId # NoMessageId
        /\ \E i \in DOMAIN d.emails :
             d.emails[i].message_id = rawEmail.messageId
      hasAttachments == rawEmail.attachments > 0
      emailRecord ==
        [message_id |-> IF rawEmail.messageId # NoMessageId
                        THEN rawEmail.messageId ELSE Generated(uid, t),
         imap_uid |-> uid,
         is_read |-> FALSE,
         folder |-> Inbox,
         attachment_count |-> rawEmail.attachments]
      inserted ==
        insertEmail(d, emailRecord, <<>>, extractAttachments(rawEmail),
                    IF outcome = "store_fails" THEN "emails_fts" ELSE "none")
      emailForListener ==
        [messageId |-> emailRecord.message_id, uid |-> emailRecord.imap_uid]
  IN
    IF outcome = "fetch_fails"
    THEN [kind |-> "fetch_fails", db |-> d, events |-> <<>>]
    ELSE IF rawEmail.messageId = NoMessageId /\ bind = "throws"
    THEN [kind |-> "lookup_fails", db |-> d, events |-> <<>>]
    ELSE IF existing
    THEN [kind |-> "skipped", db |-> d, events |-> <<>>]
    ELSE IF options.hasAttachments # "undefined"
            /\ (options.hasAttachments = "true") # hasAttachments
    THEN [kind |-> "skipped", db |-> d, events |-> <<>>]
    ELSE IF inserted.threw
    THEN [kind |-> "store_fails", db |-> inserted.db, events |-> <<>>]
    ELSE [kind |-> "synced", db |-> inserted.db,
          events |-> <<emailForListener>>]

MessageFailures == {"fetch_fails", "lookup_fails", "store_fails"}
AbortFailures == {"connect_fails", "open_fails", "search_fails"}

\* What a finished run leaves in the run log.
RunRecord(result) ==
  [result |-> result, stats |-> stats, dbBefore |-> sDbBefore,
   dbAfter |-> db, dispatched |-> Len(sdispatched), faulty |-> sfaulty]

\* syncEmails(options) is called.
SyncStart ==
  /\ spc \in {"idle", "returned", "threw"}
  /\ runs < MaxRuns
  /\ runs' = runs + 1
  /\ spc' = "opening"
  /\ stats' = [synced |-> 0, skipped |-> 0, errors |-> 0]
  /\ sDbBefore' = db
  /\ sdispatched' = <<>>
  /\ sfaulty' = FALSE
  /\ slast' = "none"
  /\ sprev' = [db |-> db, stats |-> stats', idx |-> 0]
  /\ suids' = <<>>
  /\ sidx' = 1
  /\ UNCHANGED <<mailbox, sopts, now, runLog, storeVars, ctxVars,
                 listenerVars, idleVars>>

\* connect, openInbox and searchEmails: any of them failing is rethrown by
\* the outer catch, after the finally has disconnected.
SyncOpen(outcome) ==
  /\ spc = "opening"
  /\ slast' = outcome
  /\ sprev' = [db |-> db, stats |-> stats, idx |-> 0]
  /\ IF outcome = "ok"
     THEN /\ suids' = uidsToProcess(searchEmails(mailbox), sopts)
          /\ sidx' = 1
          /\ spc' = "loop"
          /\ UNCHANGED <<sfaulty, runLog>>
     ELSE /\ spc' = "threw"
          /\ sfaulty' = TRUE
          /\ runLog' = Append(runLog, [RunRecord("threw")
                                         EXCEPT !.faulty = TRUE])
          /\ UNCHANGED <<suids, sidx>>
  /\ UNCHANGED <<mailbox, sopts, now, stats, sDbBefore, sdispatched, runs,
                 storeVars, ctxVars, listenerVars, idleVars>>

\* One iteration of the for loop, with the awaited checkEvent of a stored
\* message (no listener is loaded while a run is modelled, so checkEvent
\* finds no match and returns).
SyncMessage(outcome, bind, t) ==
  /\ spc = "loop"
  /\ sidx <= Len(suids)
  /\ t \in now..Min(now + 1, MaxClock)
  /\ now' = t
  /\ LET r == processUid(db, sopts, suids[sidx], mailbox, outcome, bind, t)
     IN
       /\ db' = r.db
       /\ slast' = r.kind
       /\ stats' =
            [synced |-> stats.synced + (IF r.kind = "synced" THEN 1 ELSE 0),
             skipped |-> stats.skipped + (IF r.kind = "skipped" THEN 1 ELSE 0),
             errors |-> stats.errors
                          + (IF r.kind \in MessageFailures THEN 1 ELSE 0)]
       /\ sdispatched' = sdispatched \o r.events
       /\ sfaulty' = (sfaulty \/ (r.kind \in MessageFailures
                                    /\ outcome # "ok"))
  /\ sprev' = [db |-> db, stats |-> stats, idx |-> sidx]
  /\ sidx' = sidx + 1
  /\ UNCHANGED <<mailbox, sopts, spc, suids, sDbBefore, runs, runLog,
                 imapLog, ctxVars, listenerVars, idleVars>>

\* The loop is over: disconnect and return stats.
SyncFinish ==
  /\ spc = "loop"
  /\ sidx > Len(suids)
  /\ spc' = "returned"
  /\ slast' = "none"
  /\ runLog' = Append(runLog, RunRecord("returned"))
  /\ UNCHANGED <<mailbox, sopts, now, suids, sidx, stats, sDbBefore,
                 sdispatched, sfaulty, sprev, runs, storeVars, ctxVars,
                 listenerVars, idleVars>>

\* The buffer handleIdleNewEmails adds to the announced count.
IdleBuffer == 5

\* The messages of the mailbox that have no row in the store.
NewMessages(box, d) ==
  {i \in DOMAIN box :
     \A k \in DOMAIN d.emails : d.emails[k].message_id # box[i].messageId}

\* handleIdleNewEmails(count, "INBOX") for a "mail" event that announces
\* the new messages of the mailbox: syncEmails({folder, limit: count + 5,
\* since}) is called; what the run throws is caught and logged.
handleIdleNewEmails(count) ==
  /\ spc \in {"idle", "returned", "threw"}
  /\ runs < MaxRuns
  /\ count = Cardinality(NewMessages(mailbox, db))
  /\ sopts' = [limit |-> count + IdleBuffer, hasAttachments |-> "undefined"]
  /\ runs' = runs + 1
  /\ spc' = "opening"
  /\ stats' = [synced |-> 0, skipped |-> 0, errors |-> 0]
  /\ sDbBefore' = db
  /\ sdispatched' = <<>>
  /\ sfaulty' = FALSE
  /\ slast' = "none"
  /\ sprev' = [db |-> db, stats |-> stats', idx |-> 0]
  /\ suids' = <<>>
  /\ sidx' = 1
  /\ UNCHANGED <<mailbox, now, runLog, storeVars, ctxVars, listenerVars,
                 idleVars>>

SyncRest ==
  /\ mailbox = <<>>
  /\ sopts = [limit |-> Undefined, hasAttachments |-> "undefined"]
  /\ now = 0
  /\ spc = "idle"
  /\ suids = <<>>
  /\ sidx = 1
  /\ stats = [synced |-> 0, skipped |-> 0, errors |-> 0]
  /\ sDbBefore = db
  /\ sdispatched = <<>>
  /\ sfaulty = FALSE
  /\ slast = "none"
  /\ sprev = [db |-> db, stats |-> stats, idx |-> 0]
  /\ runs = 0
  /\ runLog = <<>>

(***************************************************************************)
(* ImapManager: connection and IDLE monitoring.                            *)
(***************************************************************************)
\* The sequence s without its i-th element.
RemoveAt(s, i) == SubSeq(s, 1, i - 1) \o SubSeq(s, i + 1, Len(s))

NoHandlers == [mail |-> 0, update |-> 0, error |-> 0, close |-> 0]
NoOnceHandlers == [ready |-> 0, error |-> 0, end |-> 0]

\* A call of startIdleMonitoring that awaits the connection ("connect") or
\* openMailbox ("open"), made by the host or by the reconnect of the error
\* handler ("auto").
IdleProc(origin, pc) == [origin |-> origin, pc |-> pc]

\* connect() when this.isConnected is false: return the pending promise, or
\* make one, register onReady, onError, onEnd and call imap.connect().
connect ==
  IF connectionPromise
  THEN UNCHANGED <<connectionPromise, onceHandlers, sockConnecting,
                   connectsInFlight,
                   timeoutArmed>>
  ELSE /\ connectionPromise' = TRUE
       /\ onceHandlers' = [h \in DOMAIN onceHandlers |-> onceHandlers[h] + 1]
       /\ sockConnecting' = TRUE
       /\ connectsInFlight' = connectsInFlight + 1
       /\ timeoutArmed' = TRUE

\* The host calls startIdleMonitoring("INBOX", callback): ensureConnection,
\* then currentFolder, onNewEmailCallback and the call of openMailbox.
StartIdleMonitoring ==
  /\ hostStarts < MaxStarts
  /\ hostStarts' = hostStarts + 1
  /\ stoppedByHost' = FALSE
  /\ IF isConnected
     THEN /\ currentFolder' = Inbox
          /\ onNewEmailCallback' = TRUE
          /\ iprocs' = Append(iprocs, IdleProc("host", "open"))
          /\ UNCHANGED <<connectionPromise, onceHandlers, sockConnecting,
                         connectsInFlight,
                         timeoutArmed>>
     ELSE /\ connect
          /\ iprocs' = Append(iprocs, IdleProc("host", "connect"))
          /\ UNCHANGED <<currentFolder, onNewEmailCallback>>
  /\ UNCHANGED <<isConnected, isIdling, handlers, timers, sockOpen, boxOpen,
                 closePending, idleErrors, mailEvents, hostStops, lastMail,
                 storeVars, ctxVars, syncVars, listenerVars>>

\* The "ready" event: every onReady runs, and every call that awaited the
\* connection goes on to openMailbox.
ConnReady ==
  /\ sockConnecting
  /\ sockConnecting' = FALSE
  /\ connectsInFlight' = 0
  /\ sockOpen' = TRUE
  /\ onceHandlers' = [onceHandlers EXCEPT !.ready = 0]
  /\ IF onceHandlers.ready > 0
     THEN /\ isConnected' = TRUE
          /\ connectionPromise' = FALSE
          /\ timeoutArmed' = FALSE
     ELSE UNCHANGED <<isConnected, connectionPromise, timeoutArmed>>
  /\ iprocs' = [i \in DOMAIN iprocs |-> IdleProc(iprocs[i].origin, "open")]
  /\ IF \E i \in DOMAIN iprocs : iprocs[i].pc = "connect"
     THEN /\ currentFolder' = Inbox
          /\ onNewEmailCallback' = TRUE
     ELSE UNCHANGED <<currentFolder, onNewEmailCallback>>
  /\ UNCHANGED <<isIdling, handlers, timers, boxOpen, closePending,
                 idleErrors, mailEvents, hostStarts, hostStops,
                 stoppedByHost, lastMail, storeVars, ctxVars, syncVars,
                 listenerVars>>

\* The 30 s timeout of connect(): the promise is dropped and rejected, the
\* connection ended.
ConnTimeout ==
  /\ timeoutArmed
  /\ sockConnecting
  /\ timeoutArmed' = FALSE
  /\ connectionPromise' = FALSE
  /\ sockConnecting' = FALSE
  /\ connectsInFlight' = 0
  /\ closePending' = TRUE
  /\ iprocs' = SelectSeq(iprocs, LAMBDA p : p.pc # "connect")
  /\ UNCHANGED <<isConnected, isIdling, onNewEmailCallback, currentFolder,
                 handlers, onceHandlers, timers, sockOpen, boxOpen,
                 idleErrors, mailEvents, hostStarts, hostStops,
                 stoppedByHost, lastMail, storeVars, ctxVars, syncVars,
                 listenerVars>>

\* The callback of openBox for one of the calls that await it.  On
\* success: currentFolder, isIdling = true, and one more handler for each of
\* mail, update, error and close.  On failure the call rejects.
OpenMailboxDone(ok) ==
  /\ ok => sockOpen
  /\ \E i \in DOMAIN iprocs :
       /\ iprocs[i].pc = "open"
       /\ iprocs' = RemoveAt(iprocs, i)
  /\ IF ok
     THEN /\ currentFolder' = Inbox
          /\ boxOpen' = TRUE
          /\ isIdling' = TRUE
          /\ handlers' = [h \in DOMAIN handlers |-> handlers[h] + 1]
     ELSE UNCHANGED <<currentFolder, boxOpen, isIdling, handlers>>
  /\ UNCHANGED <<isConnected, connectionPromise, onNewEmailCallback,
                 onceHandlers, timers, sockConnecting,
                 connectsInFlight, sockOpen,
                 closePending, timeoutArmed, idleErrors, mailEvents,
                 hostStarts, hostStops, stoppedByHost, lastMail, storeVars,
                 ctxVars, syncVars, listenerVars>>

\* The "mail" event with count n: every registered mail handler calls the
\* callback when there is one.
MailEvent(n) ==
  /\ boxOpen
  /\ mailEvents < MaxMail
  /\ mailEvents' = mailEvents + 1
  /\ lastMail' = [n |-> n,
                  calls |-> IF onNewEmailCallback THEN handlers.mail ELSE 0]
  /\ UNCHANGED <<isConnected, connectionPromise, isIdling,
                 onNewEmailCallback, currentFolder, handlers, onceHandlers,
                 timers, iprocs, sockConnecting,
                 connectsInFlight, sockOpen, boxOpen,
                 closePending, timeoutArmed, idleErrors, hostStarts,
                 hostStops, stoppedByHost, storeVars, ctxVars, syncVars,
                 listenerVars>>

\* The "error" event: onError of connect() (once) rejects the pending
\* connection, and every error handler of startIdleMonitoring clears
\* isIdling and arms a 5 s timer.
ErrorEvent ==
  /\ sockConnecting \/ sockOpen
  /\ onceHandlers.error + handlers.error > 0
  /\ idleErrors < MaxErrors
  /\ idleErrors' = idleErrors + 1
  /\ sockConnecting' = FALSE
  /\ connectsInFlight' = 0
  /\ sockOpen' = FALSE
  /\ boxOpen' = FALSE
  /\ closePending' = TRUE
  /\ onceHandlers' = [onceHandlers EXCEPT !.error = 0]
  /\ IF onceHandlers.error > 0
     THEN /\ isConnected' = FALSE
          /\ connectionPromise' = FALSE
          /\ timeoutArmed' = FALSE
     ELSE UNCHANGED <<isConnected, connectionPromise, timeoutArmed>>
  /\ iprocs' = IF onceHandlers.error > 0
               THEN SelectSeq(iprocs, LAMBDA p : p.pc # "connect")
               ELSE iprocs
  /\ isIdling' = IF handlers.error > 0 THEN FALSE ELSE isIdling
  /\ timers' = timers + handlers.error
  /\ UNCHANGED <<onNewEmailCallback, currentFolder, handlers, mailEvents,
                 hostStarts, hostStops, stoppedByHost, lastMail, storeVars,
                 ctxVars, syncVars, listenerVars>>

\* A timer whose reconnect is not followed by startIdleMonitoring.
ReconnectTimer_NoReentry ==
  /\ timers > 0
  /\ timers' = timers - 1
  /\ isConnected' = FALSE
  /\ IF isConnected
     THEN /\ sockOpen' = FALSE
          /\ boxOpen' = FALSE
          /\ closePending' = TRUE
     ELSE UNCHANGED <<sockOpen, boxOpen, closePending>>
  /\ connect
  /\ UNCHANGED <<isIdling, onNewEmailCallback, currentFolder, handlers,
                 iprocs, idleErrors, mailEvents, hostStarts, hostStops,
                 stoppedByHost, lastMail, storeVars, ctxVars, syncVars,
                 listenerVars>>

\* A timer of the error handler fires: reconnect() disconnects and
\* connects, and startIdleMonitoring(folder, onNewEmail) follows the
\* connection.
ReconnectTimer ==
  /\ timers > 0
  /\ timers' = timers - 1
  /\ isConnected' = FALSE
  /\ IF isConnected
     THEN /\ sockOpen' = FALSE
          /\ boxOpen' = FALSE
          /\ closePending' = TRUE
     ELSE UNCHANGED <<sockOpen, boxOpen, closePending>>
  /\ connect
  /\ iprocs' = Append(iprocs, IdleProc("auto", "connect"))
  /\ UNCHANGED <<isIdling, onNewEmailCallback, currentFolder, handlers,
                 idleErrors, mailEvents, hostStarts, hostStops,
                 stoppedByHost, lastMail, storeVars, ctxVars, syncVars,
                 listenerVars>>

\* The "end" and "close" events of a connection that ended: onEnd of
\* connect() (once) and every close handler of startIdleMonitoring.
CloseEvent ==
  /\ closePending
  /\ closePending' = FALSE
  /\ onceHandlers' = [onceHandlers EXCEPT !.end = 0]
  /\ isConnected' =
       IF onceHandlers.end + handlers.close > 0 THEN FALSE ELSE isConnected
  /\ IF onceHandlers.end > 0
     THEN /\ connectionPromise' = FALSE
          /\ timeoutArmed' = FALSE
     ELSE UNCHANGED <<connectionPromise, timeoutArmed>>
  /\ isIdling' = IF handlers.close > 0 THEN FALSE ELSE isIdling
  /\ UNCHANGED <<onNewEmailCallback, currentFolder, handlers, timers,
                 iprocs, sockConnecting,
                 connectsInFlight, sockOpen, boxOpen, idleErrors,
                 mailEvents, hostStarts, hostStops, stoppedByHost, lastMail,
                 storeVars, ctxVars, syncVars, listenerVars>>

\* The host calls stopIdleMonitoring() (while no startIdleMonitoring call
\* of its own is under way).
StopIdleMonitoring ==
  /\ hostStops < MaxStops
  /\ \A i \in DOMAIN iprocs : iprocs[i].origin # "host"
  /\ hostStops' = hostStops + 1
  /\ stoppedByHost' = TRUE
  /\ isIdling' = FALSE
  /\ handlers' = NoHandlers
  /\ onceHandlers' = [onceHandlers EXCEPT !.error = 0]
  /\ onNewEmailCallback' = FALSE
  /\ UNCHANGED <<isConnected, connectionPromise, currentFolder, timers,
                 iprocs, sockConnecting,
                 connectsInFlight, sockOpen, boxOpen, closePending,
                 timeoutArmed, idleErrors, mailEvents, hostStarts, lastMail,
                 storeVars, ctxVars, syncVars, listenerVars>>

IdleRest ==
  /\ isConnected = FALSE
  /\ connectionPromise = FALSE
  /\ isIdling = FALSE
  /\ onNewEmailCallback = FALSE
  /\ currentFolder = Inbox
  /\ handlers = NoHandlers
  /\ onceHandlers = NoOnceHandlers
  /\ timers = 0
  /\ iprocs = <<>>
  /\ sockConnecting = FALSE
  /\ connectsInFlight = 0
  /\ sockOpen = FALSE
  /\ boxOpen = FALSE
  /\ closePending = FALSE
  /\ timeoutArmed = FALSE
  /\ idleErrors = 0
  /\ mailEvents = 0
  /\ hostStarts = 0
  /\ hostStops = 0
  /\ stoppedByHost = FALSE
  /\ lastMail = [n |-> 0, calls |-> 0]

(***************************************************************************)
(* ImapManager: operations that share the connection.                      *)
(***************************************************************************)
\* The operations of ImapManager that a caller may run at the same time:
\* the seven mutations and searchEmails.
Operations == ContextOps \cup {"searchEmails"}

\* The mutations pass readOnly = false to openMailbox; searchEmails leaves
\* the default, true.
ReadOnlyOf(op) == op = "searchEmails"

\* No mailbox is selected.
NoBox == [folder |-> "", readOnly |-> TRUE]

\* A caller runs an operation on a folder while the connection is up:
\* ensureConnection returns and openMailbox hands openBox to the connection.
OperationCall(op, folder) ==
  /\ isConnected
  /\ Len(ops) < MaxOps
  /\ ops' = Append(ops, [op |-> op, folder |-> folder, pc |-> "open"])
  /\ imapQueue' = Append(imapQueue, [id |-> Len(ops) + 1, kind |-> "openBox"])
  /\ UNCHANGED <<selected, issued, idleVars, storeVars, ctxVars, syncVars,
                 regVars, checkVars, handlerVars, callVars, searchVars,
                 fetchVars, hostVars, overlapVars, labelVars>>

\* The connection serves its oldest request.  An openBox selects the
\* mailbox, its callback sets currentFolder and the operation hands its
\* command to the connection; on an error the operation rejects.  A command
\* is executed in the mailbox that is selected then.
ImapServes(ok) ==
  /\ imapQueue # <<>>
  /\ LET id == imapQueue[1].id
          op == ops[id]
     IN
       IF imapQueue[1].kind = "openBox"
       THEN /\ selected' = IF ok
                           THEN [folder |-> op.folder,
                                 readOnly |-> ReadOnlyOf(op.op)]
                           ELSE NoBox
            /\ currentFolder' = IF ok THEN op.folder ELSE currentFolder
            /\ ops' = [ops EXCEPT
                         ![id].pc = IF ok THEN "command" ELSE "rejected"]
            /\ imapQueue' =
                 IF ok
                 THEN Append(Tail(imapQueue), [id |-> id, kind |-> "command"])
                 ELSE Tail(imapQueue)
            /\ UNCHANGED issued
       ELSE /\ issued' = Append(issued,
                                [op |-> op.op, folder |-> op.folder,
                                 selected |-> selected, ok |-> ok])
            /\ ops' = [ops EXCEPT
                         ![id].pc = IF ok THEN "resolved" ELSE "rejected"]
            /\ imapQueue' = Tail(imapQueue)
            /\ UNCHANGED <<selected, currentFolder>>
  /\ UNCHANGED <<isConnected, connectionPromise, isIdling,
                 onNewEmailCallback, handlers, onceHandlers, timers, iprocs,
                 sockConnecting,
                 connectsInFlight, sockOpen, boxOpen, closePending,
                 timeoutArmed, idleErrors, mailEvents, hostStarts,
                 hostStops, stoppedByHost, lastMail, storeVars, ctxVars,
                 syncVars, regVars, checkVars, handlerVars, callVars,
                 searchVars, fetchVars, hostVars, overlapVars, labelVars>>

OpRest ==
  /\ ops = <<>>
  /\ imapQueue = <<>>
  /\ selected = NoBox
  /\ issued = <<>>

CallRest ==
  /\ dbCall = NoCall
  /\ dbBefore = Stored(<<>>)
  /\ dbResult = Null
  /\ dbCalls = 0

\* The state of the connection after connect() has succeeded once.
IdleConnected ==
  /\ isConnected = TRUE
  /\ connectionPromise = FALSE
  /\ isIdling = FALSE
  /\ onNewEmailCallback = FALSE
  /\ currentFolder = Inbox
  /\ handlers = NoHandlers
  /\ onceHandlers = [ready |-> 0, error |-> 1, end |-> 1]
  /\ timers = 0
  /\ iprocs = <<>>
  /\ sockConnecting = FALSE
  /\ connectsInFlight = 0
  /\ sockOpen = TRUE
  /\ boxOpen = FALSE
  /\ closePending = FALSE
  /\ timeoutArmed = FALSE
  /\ idleErrors = 0
  /\ mailEvents = 0
  /\ hostStarts = 0
  /\ hostStops = 0
  /\ stoppedByHost = FALSE
  /\ lastMail = [n |-> 0, calls |-> 0]

(***************************************************************************)
(* The auto_archive_newsletters listener.                                  *)
(***************************************************************************)
\* The word of the lower-cased sender address, and of the lower-cased
\* subject, that the listener looks for ("alice", "hello": none of them).
FromWords == {"newsletter", "noreply", "no-reply", "notifications", "alice"}
SubjectWords == {"unsubscribe", "newsletter", "hello"}

\* The UID of the arriving message in INBOX.
NewsletterUid == 5

\* const isNewsletter = from.includes(...) || ... || subject.includes(...)
isNewsletter(email) ==
  \/ email.from \in {"newsletter", "noreply", "no-reply", "notifications"}
  \/ email.subject \in {"unsubscribe", "newsletter"}

\* A call of a context mutation from its start to its return or throw.
ContextCall(d, log, op, emailId, label, outcome) ==
  LET r == CtxResolve(d, op, emailId, label) IN
    IF r.pc = "done"
    THEN [result |-> r.result, db |-> r.db, log |-> log]
    ELSE LET q == CtxSettle(r.db, log, op, emailId, label, r.email, outcome)
         IN [result |-> q.result, db |-> q.db, log |-> q.log]

\* notify without the default of the priority.
notify_NoDefault(context, message, options) ==
  [type |-> "listener_notification",
   listenerId |-> context.listenerId,
   listenerName |-> context.listenerName,
   priority |-> IF "priority" \in DOMAIN options THEN options.priority
                ELSE "undefined",
   message |-> message]

\* context.notify(message, options): what notificationCallback receives.
notify(context, message, options) ==
  [type |-> "listener_notification",
   listenerId |-> context.listenerId,
   listenerName |-> context.listenerName,
   priority |-> IF "priority" \in DOMAIN options THEN options.priority
                ELSE "normal",
   message |-> message]

\* A message arrives and syncEmails stores it and awaits
\* checkEvent('email_received', email); the loaded listener's handler runs
\* up to its first await.
NewsletterArrives(from, subject) ==
  /\ npc = "idle"
  /\ matchingListeners(listeners, "email_received") # <<>>
  /\ LET emailRecord ==
           [message_id |-> MsgA, imap_uid |-> NewsletterUid,
            subject |-> subject, is_read |-> FALSE, folder |-> Inbox,
            attachment_count |-> 0]
         inserted == insertEmail(db, emailRecord, <<>>, <<>>, "none")
     IN /\ ~inserted.threw
        /\ db' = inserted.db
  /\ nemail' = [messageId |-> MsgA, from |-> from, subject |-> subject,
                uid |-> NewsletterUid]
  /\ npc' = IF isNewsletter(nemail') THEN "archiveEmail" ELSE "done"
  /\ UNCHANGED <<imapLog, notifications, regVars, checkVars, ctxVars,
                 syncVars, idleVars, opVars, callVars, searchVars, fetchVars,
                 hostVars, overlapVars, labelVars>>

\* The handler goes on: the awaited archiveEmail, markAsRead or notify
\* settles; a throw is caught by the handler's catch, which ends it.
NewsletterHandlerStep(outcome) ==
  /\ npc \in {"archiveEmail", "markAsRead", "notify"}
  /\ IF npc = "notify"
     THEN /\ notifications' =
               Append(notifications,
                      notify(createContext(
                               matchingListeners(listeners,
                                                 "email_received")[1].config),
                             nemail.subject, [priority |-> "low"]))
          /\ npc' = "done"
          /\ UNCHANGED <<db, imapLog>>
     ELSE LET r == ContextCall(db, imapLog, npc, nemail.messageId, "",
                               outcome)
          IN /\ db' = r.db
             /\ imapLog' = r.log
             /\ npc' = IF r.result # "ok" THEN "done"
                       ELSE IF npc = "archiveEmail" THEN "markAsRead"
                       ELSE "notify"
             /\ UNCHANGED notifications
  /\ UNCHANGED <<nemail, regVars, checkVars, ctxVars, syncVars, idleVars,
                 opVars, callVars, searchVars, fetchVars, hostVars,
                 overlapVars, labelVars>>

HandlerRest ==
  /\ npc = "idle"
  /\ nemail = [messageId |-> MsgA, from |-> "alice", subject |-> "hello",
               uid |-> NewsletterUid]
  /\ notifications = <<>>

(***************************************************************************)
(* ImapManager.buildImapSearchCriteria.  An optional field of              *)
(* SearchCriteria is None when it is undefined and Some(value) otherwise.  *)
(* A search expression is a sequence of predicates; a predicate is the     *)
(* tuple of its key and its operands, a bare key ('ALL', 'UNSEEN', 'SEEN') *)
(* the tuple of the key alone.                                             *)
(***************************************************************************)
None == <<>>
Some(v) == <<v>>

\* if (v) for a string, a number, a boolean and an object or array.
TruthyText(field) == field # None /\ field[1] # ""
TruthyNumber(field) == field # None /\ field[1] # 0
TruthyBoolean(field) == field # None /\ field[1]
TruthyObject(field) == field # None

\* from and to: one address or an array of addresses.
OneAddress(address) == [array |-> FALSE, items |-> <<address>>]
AddressArray(items) == [array |-> TRUE, items |-> items]
\* if (criteria.from): '' is falsy, every array is truthy.
TruthyAddresses(field) ==
  field # None /\ (field[1].array \/ field[1].items # <<"">>)

\* The block for criteria.from and criteria.to.
addressPredicates(key, field) ==
  IF ~TruthyAddresses(field) THEN <<>>
  ELSE LET addresses == field[1].items IN
         IF Len(addresses) = 1 THEN <<<<key, addresses[1]>>>>
         ELSE <<(<<"OR">> \o [i \in DOMAIN addresses |->
                               <<key, addresses[i]>>])>>

\* The predicates after the gmailQuery block, in the order they are pushed.
fieldPredicates(c) ==
  (IF TruthyText(c.query)
   THEN <<<<"OR", <<"SUBJECT", c.query[1]>>, <<"BODY", c.query[1]>>>>>>
   ELSE <<>>)
  \o addressPredicates("FROM", c.from)
  \o addressPredicates("TO", c.to)
  \o (IF TruthyText(c.subject) THEN <<<<"SUBJECT", c.subject[1]>>>>
      ELSE <<>>)
  \o (IF TruthyObject(c.dateRange) /\ TruthyObject(c.dateRange[1].start)
      THEN <<<<"SINCE", c.dateRange[1].start[1]>>>> ELSE <<>>)
  \o (IF TruthyObject(c.dateRange) /\ TruthyObject(c.dateRange[1].end)
      THEN <<<<"BEFORE", c.dateRange[1].end[1]>>>> ELSE <<>>)
  \o (IF TruthyBoolean(c.hasAttachments)
      THEN <<<<"KEYWORD", "has:attachment">>>> ELSE <<>>)
  \o (IF TruthyBoolean(c.isUnread) THEN <<<<"UNSEEN">>>>
      ELSE IF c.isUnread = Some(FALSE) THEN <<<<"SEEN">>>> ELSE <<>>)
  \o (IF TruthyNumber(c.minSize) THEN <<<<"LARGER", c.minSize[1]>>>>
      ELSE <<>>)
  \o (IF TruthyNumber(c.maxSize) THEN <<<<"SMALLER", c.maxSize[1]>>>>
      ELSE <<>>)

\* A builder that goes on after the gmailQuery block.
buildImapSearchCriteria_NoEarlyReturn(c) ==
  LET raw == IF TruthyText(c.gmailQuery)
             THEN <<<<"X-GM-RAW", c.gmailQuery[1]>>>> ELSE <<>>
  IN IF raw \o fieldPredicates(c) = <<>> THEN <<<<"ALL">>>>
     ELSE raw \o fieldPredicates(c)

\* buildImapSearchCriteria(criteria)
buildImapSearchCriteria(c) ==
  IF TruthyText(c.gmailQuery) THEN <<<<"X-GM-RAW", c.gmailQuery[1]>>>>
  ELSE IF fieldPredicates(c) = <<>> THEN <<<<"ALL">>>>
       ELSE fieldPredicates(c)

\* The values a caller may give to from and to.
AddressValues(name) ==
  {None, Some(OneAddress(name))}
    \cup {Some(AddressArray([i \in 1..n |-> name \o ToString(i)])) :
            n \in 0..MaxAddresses}

\* The SearchCriteria of the model.
CriteriaSet ==
  [gmailQuery : {None, Some(""), Some("is:unread OR has:attachment")},
   query : {None, Some("q")},
   from : AddressValues("a"),
   to : AddressValues("b"),
   subject : {None, Some("s")},
   dateRange : {None, Some([start |-> Some(1), end |-> Some(2)]),
                Some([start |-> Some(1), end |-> None])},
   hasAttachments : {None, Some(TRUE), Some(FALSE)},
   isUnread : {None, Some(TRUE), Some(FALSE)},
   minSize : {None, Some(0), Some(5)},
   maxSize : {None, Some(9)}]

\* criteria = {}
NoCriteria ==
  [gmailQuery |-> None, query |-> None, from |-> None, to |-> None,
   subject |-> None, dateRange |-> None, hasAttachments |-> None,
   isUnread |-> None, minSize |-> None, maxSize |-> None]

SearchRest ==
  /\ criteria = NoCriteria
  /\ imapCriteria = <<>>

\* searchEmails builds the expression of its criteria.
BuildImapSearchCriteria ==
  /\ imapCriteria = <<>>
  /\ imapCriteria' = buildImapSearchCriteria(criteria)
  /\ UNCHANGED <<criteria, regVars, checkVars, storeVars, ctxVars, syncVars,
                 idleVars, handlerVars, opVars, callVars, fetchVars,
                 hostVars, overlapVars, labelVars>>

(***************************************************************************)
(* ImapManager.fetchEmail and fetchEmailsBatch.                            *)
(***************************************************************************)
\* The cap on the body of one message, in characters.
SizeLimit == 50 * 1024 * 1024

\* Lengths of the chunks the body stream delivers.
ChunkLengths == {1, SizeLimit}

\* State of one fetchEmail call: emailData (its length), the resolved flag,
\* how the promise settled, the stream (stage "body": the message is being
\* streamed, "ended": the message emitted "end"), the simpleParser call
\* ("none", "pending", "done") and the "end" / "error" events of the fetch.
\* chunks counts the chunks the stream delivered, settles counts the calls of the promise's resolve and reject, tooLarge
\* records a rejection for size.
fetchEmailCall ==
  [emailData |-> 0, resolved |-> FALSE, outcome |-> "pending",
   settles |-> 0, tooLarge |-> FALSE, stage |-> "body",
   parser |-> "none", ended |-> FALSE, chunks |-> 0]

NotFetched == [fetchEmailCall EXCEPT !.stage = "none"]

safeResolve_NoFlag(f) ==
  [f EXCEPT !.resolved = TRUE, !.outcome = "message", !.settles = @ + 1]

safeResolve(f) ==
  IF f.resolved THEN f
  ELSE [f EXCEPT !.resolved = TRUE, !.outcome = "message",
                 !.settles = @ + 1]

safeReject(f) ==
  IF f.resolved THEN f
  ELSE [f EXCEPT !.resolved = TRUE, !.outcome = "error", !.settles = @ + 1]

\* stream.on("data"): a chunk that would take emailData over the cap rejects
\* and is dropped, any other chunk is appended.
onData(f, chunk) ==
  IF f.emailData + chunk > SizeLimit
    THEN [safeReject(f) EXCEPT !.tooLarge = TRUE, !.chunks = @ + 1]
    ELSE [f EXCEPT !.emailData = @ + chunk, !.chunks = @ + 1]

\* msg.once("end"): simpleParser is called on emailData.
onMessageEnd(f) == [f EXCEPT !.stage = "ended", !.parser = "pending"]

\* The callback of simpleParser.
onParsed(f, err) ==
  [(IF err THEN safeReject(f) ELSE safeResolve(f)) EXCEPT !.parser = "done"]

\* fetch.once("error"): the fetch that failed delivers nothing more.
onFetchError(f) == [safeReject(f) EXCEPT !.ended = TRUE]

\* fetch.once("end"): the fetch delivers nothing more.
onFetchEnd(f) ==
  [(IF f.emailData = 0 /\ ~f.resolved THEN safeReject(f) ELSE f)
     EXCEPT !.ended = TRUE]

\* The async function fetchEmailsBatch maps over a batch: the awaited
\* fetchEmail, with its rejection caught and turned into parsed = null.
fetchOne(f) ==
  [settled |-> f.resolved, threw |-> FALSE, parsed |-> f.outcome = "message"]

effectiveBatchSize(headersOnly, batchSize) ==
  IF headersOnly THEN 30 ELSE batchSize

\* uids.slice(i, i + effectiveBatchSize), as positions of fuids.
batchOf(i, size) == i .. Min(i + size - 1, Len(fuids))

FetchRest ==
  /\ fuids = <<>>
  /\ fheadersOnly = FALSE
  /\ fi = 1
  /\ fetches = <<>>
  /\ results = {}
  /\ fpc = "idle"

FetchOthers ==
  UNCHANGED <<regVars, checkVars, storeVars, ctxVars, syncVars, idleVars,
              handlerVars, opVars, callVars, searchVars, hostVars,
              overlapVars, labelVars>>

\* The fetchEmail calls of the batch that starts at position i.
startBatch(f, i, size) ==
  [k \in DOMAIN f |-> IF k \in batchOf(i, size) THEN fetchEmailCall ELSE f[k]]

FetchEmailsBatch(headersOnly) ==
  /\ fpc = "idle"
  /\ fuids' = [k \in 1..MaxFetch |-> k]
  /\ fheadersOnly' = headersOnly
  /\ fi' = 1
  /\ results' = {}
  /\ fetches' = LET none == [k \in 1..MaxFetch |-> NotFetched]
                    size == effectiveBatchSize(headersOnly, BatchSize)
                IN [k \in 1..MaxFetch |->
                      IF k \in 1 .. Min(size, MaxFetch)
                        THEN fetchEmailCall ELSE none[k]]
  /\ fpc' = "batch"
  /\ FetchOthers

FetchFrame == UNCHANGED <<fuids, fheadersOnly, fi, results, fpc>>

\* The connection delivers a chunk of the body of message k. The chunks
\* that follow a rejection for size are left out: the promise is settled,
\* and emailData is read again by simpleParser only, whose answer is drawn
\* freely.
FetchData(k, chunk) ==
  /\ k \in DOMAIN fetches
  /\ fetches[k].stage = "body"
  /\ ~fetches[k].ended
  /\ ~fetches[k].tooLarge
  /\ fetches[k].chunks < MaxChunks
  /\ fetches' = [fetches EXCEPT ![k] = onData(@, chunk)]
  /\ FetchFrame /\ FetchOthers

FetchMessageEnd(k) ==
  /\ k \in DOMAIN fetches
  /\ fetches[k].stage = "body"
  /\ ~fetches[k].ended
  /\ fetches' = [fetches EXCEPT ![k] = onMessageEnd(@)]
  /\ FetchFrame /\ FetchOthers

FetchParsed(k, err) ==
  /\ k \in DOMAIN fetches
  /\ fetches[k].parser = "pending"
  /\ fetches' = [fetches EXCEPT ![k] = onParsed(@, err)]
  /\ FetchFrame /\ FetchOthers

FetchError(k) ==
  /\ k \in DOMAIN fetches
  /\ fetches[k].stage # "none"
  /\ ~fetches[k].ended
  /\ fetches' = [fetches EXCEPT ![k] = onFetchError(@)]
  /\ FetchFrame /\ FetchOthers

\* The fetch ends after its message did, or without any message.
FetchEnd(k) ==
  /\ k \in DOMAIN fetches
  /\ \/ fetches[k].stage = "ended"
     \/ fetches[k].stage = "body" /\ fetches[k].emailData = 0
  /\ ~fetches[k].ended
  /\ fetches' = [fetches EXCEPT ![k] = onFetchEnd(@)]
  /\ FetchFrame /\ FetchOthers

\* Promise.all over the batch settles: it rejects with the first rejection,
\* else its results go to the map and the next batch starts.
BatchSettles ==
  /\ fpc = "batch"
  /\ LET size == effectiveBatchSize(fheadersOnly, BatchSize)
         batch == batchOf(fi, size)
         next == fi + size
     IN /\ \/ \E k \in batch : fetchOne(fetches[k]).threw
           \/ \A k \in batch : fetchOne(fetches[k]).settled
        /\ IF \E k \in batch : fetchOne(fetches[k]).threw
             THEN /\ fpc' = "threw"
                  /\ UNCHANGED <<fi, fetches, results>>
             ELSE /\ results' = results \cup
                       { fuids[k] : k \in
                           { j \in batch : fetchOne(fetches[j]).parsed } }
                  /\ fi' = next
                  /\ fetches' = IF next <= Len(fuids)
                                  THEN startBatch(fetches, next, size)
                                  ELSE fetches
                  /\ fpc' = IF next <= Len(fuids) THEN "batch" ELSE "returned"
  /\ UNCHANGED <<fuids, fheadersOnly>>
  /\ FetchOthers

(***************************************************************************)
(* notify and callAgent of the context of a listener.                      *)
(***************************************************************************)
\* The configs of two loaded listeners.
HostListeners ==
  { [id |-> "boss_urgent_watcher", name |-> "Boss Urgent Email Watcher"],
    [id |-> "auto_archive_newsletters", name |-> "Auto-Archive Newsletters"] }

\* options of notify: undefined, {} or {priority}.
NotifyOptionSets ==
  { [undefined |-> TRUE], [empty |-> TRUE] }
    \cup { [priority |-> p] : p \in {"low", "normal", "high"} }

\* options of callAgent; prompt and schema do not matter to the code.
SubagentOptionSets ==
  { [prompt |-> "p", schema |-> "s"] }
    \cup { [prompt |-> "p", schema |-> "s", model |-> m] :
             m \in {"opus", "sonnet", "haiku"} }

\* What the LLM would answer: a content with or without a tool_use block.
LlmResponses ==
  { [tool_use |-> TRUE, input |-> "payload"], [tool_use |-> FALSE] }

\* context.callAgent(options): logs the model and throws.
callAgent(context, options, response) ==
  [threw |-> TRUE,
   error |-> "callAgent() not yet implemented",
   model |-> IF "model" \in DOMAIN options THEN options.model ELSE "haiku"]

HostRest ==
  /\ notificationCallback = FALSE
  /\ delivered = <<>>
  /\ hostCalls = <<>>

HostOthers ==
  UNCHANGED <<regVars, checkVars, storeVars, ctxVars, syncVars, idleVars,
              handlerVars, opVars, callVars, searchVars, fetchVars,
              overlapVars, labelVars>>

\* A handler awaits context.notify(message, options) on the context built
\* for its listener; the callback, if any, runs inside the call.
Notify(listenerConfig, message, options) ==
  /\ Len(hostCalls) < MaxHostCalls
  /\ LET context == createContext(listenerConfig)
         notification == notify(context, message, options)
     IN /\ delivered' = IF notificationCallback
                          THEN Append(delivered, notification)
                          ELSE delivered
        /\ hostCalls' = Append(hostCalls,
                               [op |-> "notify", config |-> listenerConfig,
                                message |-> message, options |-> options,
                                result |-> "resolved"])
  /\ UNCHANGED notificationCallback
  /\ HostOthers

\* A handler awaits context.callAgent(options); response is what the LLM
\* would answer to the prompt.
CallAgent(listenerConfig, options, response) ==
  /\ Len(hostCalls) < MaxHostCalls
  /\ LET context == createContext(listenerConfig)
         r == callAgent(context, options, response)
     IN hostCalls' = Append(hostCalls,
                            [op |-> "callAgent", config |-> listenerConfig,
                             options |-> options, response |-> response,
                             result |-> r])
  /\ UNCHANGED <<notificationCallback, delivered>>
  /\ HostOthers

(***************************************************************************)
(* Overlapping runs of syncEmails on one EmailSyncService.  A run yields   *)
(* at its awaits only: connect, openInbox and searchEmails, fetchEmail,    *)
(* checkEvent.  What lies between two awaits is one step: the lookup of    *)
(* the message-id, the insert and the counters are not interleaved with    *)
(* another run.  The runs share the store, the mailbox and the one         *)
(* emailSearcher of the service.                                           *)
(***************************************************************************)
OverlapOptionSets ==
  { o \in SyncOptionSets :
      o.hasAttachments = "undefined" /\ o.limit \in {Undefined, 1} }

NoRun ==
  [pc |-> "idle",
   options |-> [limit |-> Undefined, hasAttachments |-> "undefined"],
   uids |-> <<>>, i |-> 1,
   stats |-> [synced |-> 0, skipped |-> 0, errors |-> 0],
   lost |-> FALSE]

OverlapRest ==
  /\ oruns = <<>>
  /\ oconnected = FALSE
  /\ odispatched = <<>>

OverlapOthers ==
  UNCHANGED <<regVars, checkVars, imapLog, ctxVars, idleVars, handlerVars,
              opVars, callVars, searchVars, fetchVars, hostVars, labelVars,
              mailbox, sopts, spc, suids, sidx, stats, sDbBefore,
              sdispatched, sfaulty, slast, sprev, runs, runLog>>

\* EmailSearcher.connect(): the connection of the searcher is up.
searcherConnect(connected) == TRUE

\* EmailSearcher.disconnect(): the connection of the searcher is ended.
searcherDisconnect(connected) == FALSE

\* syncEmails(options) is called: stats is zeroed and connect is awaited.
OverlapStart(r, options) ==
  /\ r \in DOMAIN oruns
  /\ oruns[r].pc = "idle"
  /\ oruns' = [oruns EXCEPT ![r] = [NoRun EXCEPT !.pc = "connect",
                                                !.options = options]]
  /\ UNCHANGED <<oconnected, odispatched, db, now>>
  /\ OverlapOthers

\* connect resolves; openInbox is awaited.
OverlapConnected(r) ==
  /\ r \in DOMAIN oruns
  /\ oruns[r].pc = "connect"
  /\ oconnected' = searcherConnect(oconnected)
  /\ oruns' = [oruns EXCEPT ![r].pc = "open"]
  /\ UNCHANGED <<odispatched, db, now>>
  /\ OverlapOthers

\* The run after the body of its loop for uids[i]: the next fetchEmail is
\* awaited, or the loop is over, the finally disconnects and stats is
\* returned.
nextIteration(run) ==
  IF run.i + 1 <= Len(run.uids)
    THEN [run EXCEPT !.i = @ + 1, !.pc = "fetch"]
    ELSE [run EXCEPT !.i = @ + 1, !.pc = "returned"]

\* openInbox and searchEmails settle.  On a connection that is down they
\* reject: the outer catch rethrows after the finally has disconnected.
OverlapSearched(r) ==
  /\ r \in DOMAIN oruns
  /\ oruns[r].pc = "open"
  /\ LET uids == uidsToProcess(searchEmails(mailbox), oruns[r].options)
         run == IF ~oconnected
                  THEN [oruns[r] EXCEPT !.pc = "threw", !.lost = TRUE]
                ELSE IF uids = <<>>
                  THEN [oruns[r] EXCEPT !.pc = "returned"]
                ELSE [oruns[r] EXCEPT !.uids = uids, !.i = 1,
                                      !.pc = "fetch"]
     IN /\ oruns' = [oruns EXCEPT ![r] = run]
        /\ oconnected' = IF run.pc \in {"threw", "returned"}
                           THEN searcherDisconnect(oconnected)
                           ELSE oconnected
  /\ UNCHANGED <<odispatched, db, now>>
  /\ OverlapOthers

\* fetchEmail(uid) settles (it rejects on a connection that is down) and
\* the body of the loop runs up to its next await: checkEvent when the
\* message was stored, else the next fetchEmail or the end of the run.
OverlapMessage(r, outcome, bind, t) ==
  /\ r \in DOMAIN oruns
  /\ oruns[r].pc = "fetch"
  /\ t \in now..Min(now + 1, MaxClock)
  /\ now' = t
  /\ LET run == oruns[r]
         down == ~oconnected
         q == processUid(db, run.options, run.uids[run.i], mailbox,
                         IF down THEN "fetch_fails" ELSE outcome, bind, t)
         counted ==
           [run EXCEPT
              !.stats =
                 [synced |-> @.synced + (IF q.kind = "synced" THEN 1 ELSE 0),
                  skipped |-> @.skipped
                                + (IF q.kind = "skipped" THEN 1 ELSE 0),
                  errors |-> @.errors
                               + (IF q.kind \in MessageFailures
                                    THEN 1 ELSE 0)],
              !.lost = @ \/ down]
         after == IF q.kind = "synced"
                    THEN [counted EXCEPT !.pc = "dispatch"]
                    ELSE nextIteration(counted)
     IN /\ db' = q.db
        /\ odispatched' = odispatched \o q.events
        /\ oruns' = [oruns EXCEPT ![r] = after]
        /\ oconnected' = IF after.pc = "returned"
                           THEN searcherDisconnect(oconnected)
                           ELSE oconnected
  /\ OverlapOthers

\* The awaited checkEvent returns.
OverlapDispatched(r) ==
  /\ r \in DOMAIN oruns
  /\ oruns[r].pc = "dispatch"
  /\ LET after == nextIteration(oruns[r])
     IN /\ oruns' = [oruns EXCEPT ![r] = after]
        /\ oconnected' = IF after.pc = "returned"
                           THEN searcherDisconnect(oconnected)
                           ELSE oconnected
  /\ UNCHANGED <<odispatched, db, now>>
  /\ OverlapOthers

(***************************************************************************)
(* addLabel and removeLabel of a context running at once on one email.     *)
(* An operation yields at its two awaits: what precedes the await of the   *)
(* ImapManager call is one step, what follows it another.                   *)
(***************************************************************************)
NoLabelOp ==
  [pc |-> "idle", op |-> "addLabel", label |-> "", email |-> Null,
   result |-> "none", error |-> ""]

LabelRest == labelOps = <<>>

\* context.addLabel(MsgA, label) or context.removeLabel(MsgA, label) of
\* slot k: the call up to its await of the ImapManager operation, or, for a
\* call that awaits it, the settling of that operation and the write of
\* the labels computed from the email read before the await.
LabelOperation(k, op, label, outcome) ==
  /\ k \in DOMAIN labelOps
  /\ IF labelOps[k].pc = "imap"
     THEN /\ op = labelOps[k].op
          /\ label = labelOps[k].label
          /\ LET r == CtxSettle(db, imapLog, op, MsgA, label,
                                labelOps[k].email, outcome)
             IN /\ db' = r.db
                /\ imapLog' = r.log
                /\ labelOps' = [labelOps EXCEPT ![k].pc = "done",
                                                ![k].result = r.result,
                                                ![k].error = r.error]
     ELSE /\ labelOps[k].pc = "idle"
          /\ outcome = "ok"
          /\ LET r == CtxResolve(db, op, MsgA, label)
             IN /\ db' = r.db
                /\ labelOps' = [labelOps EXCEPT
                                  ![k] = [pc |-> r.pc, op |-> op,
                                          label |-> label, email |-> r.email,
                                          result |-> r.result,
                                          error |-> r.error]]
          /\ UNCHANGED imapLog
  /\ UNCHANGED <<regVars, checkVars, ctxVars, syncVars, idleVars,
                 handlerVars, opVars, callVars, searchVars, fetchVars,
                 hostVars, overlapVars>>

(***************************************************************************)
(* Specification of the registry and the dispatcher.                       *)
(***************************************************************************)
RegInit ==
  /\ dirExists \in BOOLEAN
  /\ dir \in [ListenerFiles -> UNION { ContentsOf(f) : f \in ListenerFiles }]
  /\ \A f \in ListenerFiles :
       IF dirExists THEN dir[f] \in InitContentsOf(f) ELSE dir[f] = Absent
  /\ listeners = <<>>
  /\ watcherActive = FALSE
  /\ watchers = 0
  /\ watchQueue = <<>>
  /\ lpc = "idle"
  /\ lcaller = "startup"
  /\ lfiles = <<>>
  /\ lidx = 1
  /\ hpc = "boot"
  /\ changes = 0
  /\ watchCalls = 0
  /\ onChangeLog = <<>>
  /\ loadCount = 0
  /\ loadStable = TRUE
  /\ loadFailed = FALSE
  /\ preSet = <<>>
  /\ postSet = <<>>

CheckInit ==
  /\ cpc = "idle"
  /\ ckind = "email_received"
  /\ cdata = "m1"
  /\ cqueue = <<>>
  /\ cstartSet = <<>>
  /\ cLoadId = 0
  /\ invoked = <<>>
  /\ errorsLogged = 0
  /\ cresult = "none"
  /\ checkCount = 0

Init ==
  /\ RegInit /\ CheckInit /\ StoreRest /\ CtxRest /\ SyncRest /\ IdleRest
  /\ HandlerRest
  /\ OpRest
  /\ CallRest
  /\ SearchRest
  /\ FetchRest
  /\ HostRest
  /\ OverlapRest
  /\ LabelRest

Next ==
  \/ StartupLoad
  \/ LoadReaddir
  \/ LoadFile
  \/ LoadFinish
  \/ WatchListeners
  \/ \E f \in ListenerFiles : \E c \in ContentsOf(f) : FileChange(f, c)
  \/ WatchEvent
  \/ \E event \in EventType : \E data \in Payloads : CheckStart(event, data)
  \/ \E outcome \in HandlerOutcomes : HandlerRun(outcome)

Spec == Init /\ [][Next]_vars

(***************************************************************************)
(* Specification of the context mutations.                                 *)
(***************************************************************************)
RegRest ==
  /\ dirExists = TRUE
  /\ dir = [f \in ListenerFiles |-> Absent]
  /\ listeners = <<>>
  /\ watcherActive = FALSE
  /\ watchers = 0
  /\ watchQueue = <<>>
  /\ lpc = "idle"
  /\ lcaller = "startup"
  /\ lfiles = <<>>
  /\ lidx = 1
  /\ hpc = "boot"
  /\ changes = 0
  /\ watchCalls = 0
  /\ onChangeLog = <<>>
  /\ loadCount = 0
  /\ loadStable = TRUE
  /\ loadFailed = FALSE
  /\ preSet = <<>>
  /\ postSet = <<>>

InitCtx ==
  /\ RegRest
  /\ CheckInit
  /\ \E rowsA \in RowsOf(MsgA, 5) : \E rowsB \in RowsOf(MsgB, 6) :
       db = Stored(rowsA \o rowsB)
  /\ imapLog = <<>>
  /\ CtxRest
  /\ SyncRest
  /\ IdleRest
  /\ HandlerRest
  /\ OpRest
  /\ CallRest
  /\ SearchRest
  /\ FetchRest
  /\ HostRest
  /\ OverlapRest
  /\ LabelRest

NextCtx ==
  \E op \in ContextOps : \E emailId \in {MsgA, MsgB} :
    \E label \in LabelArgs(op) : \E outcome \in ImapOutcomes :
      ContextMutation(op, emailId, label, outcome)

SpecCtx == InitCtx /\ [][NextCtx]_vars

(***************************************************************************)
(* Specification of syncEmails.                                            *)
(***************************************************************************)
InitSync ==
  /\ RegRest
  /\ CheckInit
  /\ \E rows \in {<<>>, <<EmailRow(MsgA, NullUid, Inbox, NullLabels)>>} :
       db = Stored(rows)
  /\ imapLog = <<>>
  /\ CtxRest
  /\ \E box \in Mailboxes :
       mailbox = [i \in DOMAIN box |-> Message(i, box[i][1], box[i][2])]
  /\ sopts \in SyncOptionSets
  /\ now = 0
  /\ spc = "idle"
  /\ suids = <<>>
  /\ sidx = 1
  /\ stats = [synced |-> 0, skipped |-> 0, errors |-> 0]
  /\ sDbBefore = db
  /\ sdispatched = <<>>
  /\ sfaulty = FALSE
  /\ slast = "none"
  /\ sprev = [db |-> db, stats |-> stats, idx |-> 0]
  /\ runs = 0
  /\ runLog = <<>>
  /\ IdleRest
  /\ HandlerRest
  /\ OpRest
  /\ CallRest
  /\ SearchRest
  /\ FetchRest
  /\ HostRest
  /\ OverlapRest
  /\ LabelRest

NextSync ==
  \/ SyncStart
  \/ \E outcome \in {"ok"} \cup AbortFailures : SyncOpen(outcome)
  \/ \E outcome \in {"ok", "fetch_fails", "store_fails"} :
       \E bind \in {"null", "throws"} : \E t \in 0..MaxClock :
         SyncMessage(outcome, bind, t)
  \/ SyncFinish

SpecSync == InitSync /\ [][NextSync]_vars

(***************************************************************************)
(* Specification of the sync that a "mail" event starts.                   *)
(***************************************************************************)
\* The mailbox holds `old` messages that are stored already and fall inside
\* the window of the search, then `new` messages; the search returns the
\* UIDs ascending or descending.
InitIdleSync ==
  /\ RegRest
  /\ CheckInit
  /\ imapLog = <<>>
  /\ IdleRest
  /\ HandlerRest
  /\ OpRest
  /\ CallRest
  /\ SearchRest
  /\ FetchRest
  /\ HostRest
  /\ OverlapRest
  /\ LabelRest
  /\ \E old \in 0..MaxOld : \E new \in 1..MaxBurst :
       \E ascending \in BOOLEAN :
         /\ db = Stored([i \in 1..old |->
                            EmailRow(Hdr(ToString(i)), i, Inbox,
                                     NullLabels)])
         /\ mailbox =
              [i \in 1..(old + new) |->
                 LET uid == IF ascending THEN i ELSE old + new + 1 - i
                 IN Message(uid, Hdr(ToString(uid)), 0)]
  /\ CtxRest
  /\ sopts = [limit |-> Undefined, hasAttachments |-> "undefined"]
  /\ now = 0
  /\ spc = "idle"
  /\ suids = <<>>
  /\ sidx = 1
  /\ stats = [synced |-> 0, skipped |-> 0, errors |-> 0]
  /\ sDbBefore = db
  /\ sdispatched = <<>>
  /\ sfaulty = FALSE
  /\ slast = "none"
  /\ sprev = [db |-> db, stats |-> stats, idx |-> 0]
  /\ runs = 0
  /\ runLog = <<>>

NextIdleSync ==
  \/ \E count \in 1..MaxBurst : handleIdleNewEmails(count)
  \/ \E outcome \in {"ok"} \cup AbortFailures : SyncOpen(outcome)
  \/ \E outcome \in {"ok", "fetch_fails", "store_fails"} :
       \E bind \in {"null", "throws"} : \E t \in 0..MaxClock :
         SyncMessage(outcome, bind, t)
  \/ SyncFinish

SpecIdleSync == InitIdleSync /\ [][NextIdleSync]_vars

(***************************************************************************)
(* Specification of IDLE monitoring.                                       *)
(***************************************************************************)
InitIdle ==
  /\ RegRest
  /\ CheckInit
  /\ StoreRest
  /\ CtxRest
  /\ SyncRest
  /\ IdleRest
  /\ HandlerRest
  /\ OpRest
  /\ CallRest
  /\ SearchRest
  /\ FetchRest
  /\ HostRest
  /\ OverlapRest
  /\ LabelRest

NextIdle ==
  \/ StartIdleMonitoring
  \/ ConnReady
  \/ ConnTimeout
  \/ \E ok \in BOOLEAN : OpenMailboxDone(ok)
  \/ \E n \in 1..2 : MailEvent(n)
  \/ ErrorEvent
  \/ ReconnectTimer
  \/ CloseEvent
  \/ StopIdleMonitoring

SpecIdle == InitIdle /\ [][NextIdle]_vars

\* IDLE monitoring that the host never stops and whose connection attempts
\* and openBox calls succeed: timers fire, a connection under way becomes
\* ready, an openBox on a live connection calls back.
NextIdleLive ==
  \/ StartIdleMonitoring
  \/ ConnReady
  \/ OpenMailboxDone(TRUE)
  \/ \E n \in 1..2 : MailEvent(n)
  \/ ErrorEvent
  \/ ReconnectTimer
  \/ CloseEvent

SpecIdleLive ==
  /\ InitIdle
  /\ [][NextIdleLive]_vars
  /\ WF_vars(ReconnectTimer)
  /\ WF_vars(ConnReady)
  /\ WF_vars(OpenMailboxDone(TRUE))

(***************************************************************************)
(* Specification of the auto_archive_newsletters listener.                 *)
(***************************************************************************)
\* The listener is loaded and enabled; the store holds other mail or none.
InitNewsletter ==
  /\ dirExists = TRUE
  /\ dir = [f \in ListenerFiles |->
              IF f = FileArchive THEN GoodReceived ELSE Absent]
  /\ listeners = loadListener(<<>>, FileArchive, GoodReceived)
  /\ watcherActive = FALSE
  /\ watchers = 0
  /\ watchQueue = <<>>
  /\ lpc = "idle"
  /\ lcaller = "startup"
  /\ lfiles = <<>>
  /\ lidx = 1
  /\ hpc = "up"
  /\ changes = 0
  /\ watchCalls = 0
  /\ onChangeLog = <<>>
  /\ loadCount = 1
  /\ loadStable = TRUE
  /\ loadFailed = FALSE
  /\ preSet = <<>>
  /\ postSet = listeners
  /\ CheckInit
  /\ \E rows \in RowsOf(MsgB, 6) :
       db = Stored(rows)
  /\ imapLog = <<>>
  /\ CtxRest
  /\ SyncRest
  /\ IdleRest
  /\ HandlerRest
  /\ OpRest
  /\ CallRest
  /\ SearchRest
  /\ FetchRest
  /\ HostRest
  /\ OverlapRest
  /\ LabelRest

NextNewsletter ==
  \/ \E from \in FromWords : \E subject \in SubjectWords :
       NewsletterArrives(from, subject)
  \/ \E outcome \in ImapOutcomes : NewsletterHandlerStep(outcome)

SpecNewsletter == InitNewsletter /\ [][NextNewsletter]_vars

(***************************************************************************)
(* Specification of operations running at the same time on the connection. *)
(***************************************************************************)
InitOps ==
  /\ RegRest
  /\ CheckInit
  /\ StoreRest
  /\ CtxRest
  /\ SyncRest
  /\ IdleConnected
  /\ HandlerRest
  /\ OpRest
  /\ CallRest
  /\ SearchRest
  /\ FetchRest
  /\ HostRest
  /\ OverlapRest
  /\ LabelRest

NextOps ==
  \/ \E op \in Operations : \E folder \in {Inbox, AllMail} :
       OperationCall(op, folder)
  \/ \E ok \in BOOLEAN : ImapServes(ok)

SpecOps == InitOps /\ [][NextOps]_vars

(***************************************************************************)
(* Specification of operations on the connection that is monitored: the    *)
(* server has called startIdleMonitoring("INBOX", callback) and the call   *)
(* has returned.                                                           *)
(***************************************************************************)
\* The state startIdleMonitoring leaves: INBOX is selected read-only, the
\* four handlers are registered and isIdling is set.
IdleMonitoring ==
  /\ isConnected = TRUE
  /\ connectionPromise = FALSE
  /\ isIdling = TRUE
  /\ onNewEmailCallback = TRUE
  /\ currentFolder = Inbox
  /\ handlers = [error |-> 1, mail |-> 1, update |-> 1, close |-> 1]
  /\ onceHandlers = [ready |-> 0, error |-> 1, end |-> 1]
  /\ timers = 0
  /\ iprocs = <<>>
  /\ sockConnecting = FALSE
  /\ connectsInFlight = 0
  /\ sockOpen = TRUE
  /\ boxOpen = TRUE
  /\ closePending = FALSE
  /\ timeoutArmed = FALSE
  /\ idleErrors = 0
  /\ mailEvents = 0
  /\ hostStarts = 1
  /\ hostStops = 0
  /\ stoppedByHost = FALSE
  /\ lastMail = [n |-> 0, calls |-> 0]

InitIdleOps ==
  /\ RegRest
  /\ CheckInit
  /\ StoreRest
  /\ CtxRest
  /\ SyncRest
  /\ IdleMonitoring
  /\ HandlerRest
  /\ ops = <<>>
  /\ imapQueue = <<>>
  /\ selected = [folder |-> Inbox, readOnly |-> TRUE]
  /\ issued = <<>>
  /\ CallRest
  /\ SearchRest
  /\ FetchRest
  /\ HostRest
  /\ OverlapRest
  /\ LabelRest

NextIdleOps ==
  \/ \E op \in Operations : \E folder \in {Inbox, AllMail} :
       OperationCall(op, folder)
  \/ \E ok \in BOOLEAN : ImapServes(ok)
  \/ StopIdleMonitoring

SpecIdleOps == InitIdleOps /\ [][NextIdleOps]_vars

(***************************************************************************)
(* Specification of the watcher: the server is up, its startup load is     *)
(* done and watchListeners is watching the directory.                      *)
(***************************************************************************)
InitWatch ==
  /\ dirExists = TRUE
  /\ \E archive \in {Absent, GoodReceived} :
       dir = [f \in ListenerFiles |->
                IF f = FileArchive THEN archive
                ELSE IF f = FileUnderscore THEN GoodReceived
                ELSE Absent]
  /\ listeners = loadAllListeners(dir)
  /\ watcherActive = TRUE
  /\ watchers = 1
  /\ watchQueue = <<>>
  /\ lpc = "idle"
  /\ lcaller = "startup"
  /\ lfiles = readdir(dir)
  /\ lidx = Len(lfiles) + 1
  /\ hpc = "up"
  /\ changes = 0
  /\ watchCalls = 1
  /\ onChangeLog = <<>>
  /\ loadCount = 1
  /\ loadStable = TRUE
  /\ loadFailed = FALSE
  /\ preSet = <<>>
  /\ postSet = listeners
  /\ CheckInit
  /\ StoreRest
  /\ CtxRest
  /\ SyncRest
  /\ IdleRest
  /\ HandlerRest
  /\ OpRest
  /\ CallRest
  /\ SearchRest
  /\ FetchRest
  /\ HostRest
  /\ OverlapRest
  /\ LabelRest

NextWatch ==
  \/ WatchListeners
  \/ \E f \in {FileUrgent, FileReadme} : \E c \in ContentsOf(f) :
       WatchedChange(f, c)
  \/ WatchEvent
  \/ LoadReaddir
  \/ LoadFile
  \/ LoadFinish
  \/ \E event \in EventType : CheckStart(event, "m1")
  \/ \E outcome \in HandlerOutcomes : HandlerRun(outcome)

SpecWatch == InitWatch /\ [][NextWatch]_vars

(***************************************************************************)
(* DatabaseManager and EmailDatabase: the methods that write and read the  *)
(* store.  Both classes open the same file.  The tables and the triggers  *)
(* are those of EmailDatabase (email-db.ts); DatabaseManager's statements  *)
(* name the columns of that schema and three more, to_addresses,          *)
(* cc_addresses and bcc_addresses.                                        *)
(***************************************************************************)

\* An EmailRecord handed to DatabaseManager.
Record(messageId, imapUid, subject, attachmentCount) ==
  [messageId |-> messageId, imapUid |-> imapUid, subject |-> subject,
   fromAddress |-> "a@x", bodyText |-> "body",
   isRead |-> TRUE, isStarred |-> FALSE, isImportant |-> TRUE,
   attachmentCount |-> attachmentCount, folder |-> AllMail,
   labels |-> <<"work">>]

\* An Attachment and a Recipient as a caller passes them.
AttachmentOf(filename) == [email_id |-> NullUid, filename |-> filename]
RecipientOf(address) == [email_id |-> NullUid, address |-> address]

\* The statements of upsertEmail's transaction, in order: [1] the INSERT
\* ... ON CONFLICT(message_id) DO UPDATE ... RETURNING id, which leaves id
\* and imap_uid of a stored row as they are and fires the update trigger,
\* or stores a new row without imap_uid and fires the insert trigger; then,
\* when attachments were given, [2] the DELETE of the stored attachments,
\* [3] the INSERTs of the given ones, [4] the UPDATE of the index entry.
upsertStatements(d, email, attachments) ==
  LET hit == {i \in DOMAIN d.emails :
                d.emails[i].message_id = email.messageId}
      emailId == IF hit # {} THEN d.emails[CHOOSE i \in hit : TRUE].id
                 ELSE d.seq + 1
      excluded ==
        [EmailRow(email.messageId, NullUid, email.folder,
                  JSONstringify(email.labels))
           EXCEPT !.id = emailId,
                  !.subject = Text(email, "subject"),
                  !.from_address = email.fromAddress,
                  !.body_text = Text(email, "bodyText"),
                  !.is_read = email.isRead,
                  !.is_starred = email.isStarred,
                  !.is_important = email.isImportant,
                  !.attachment_count = Len(attachments)]
      updated(row) ==
        [excluded EXCEPT !.id = row.id, !.imap_uid = row.imap_uid,
                         !.updated_at = row.updated_at + 1]
      withEmail ==
        IF hit # {}
        THEN emails_fts_update(
               [d EXCEPT !.emails =
                  [i \in DOMAIN @ |->
                     IF i \in hit THEN updated(@[i]) ELSE @[i]]],
               excluded)
        ELSE emails_fts_insert([d EXCEPT !.emails = Append(@, excluded),
                                         !.seq = emailId], excluded)
      withoutOld ==
        [withEmail EXCEPT !.attachments =
           SelectSeq(@, LAMBDA a : a.email_id # emailId)]
      withNew ==
        [withoutOld EXCEPT !.attachments =
           @ \o [k \in DOMAIN attachments |->
                   [attachments[k] EXCEPT !.email_id = emailId]]]
      withNames ==
        [withNew EXCEPT !.emails_fts =
           [i \in DOMAIN @ |->
              IF @[i].message_id = email.messageId
              THEN [@[i] EXCEPT
                      !.attachment_names =
                         [k \in DOMAIN attachments |->
                            attachments[k].filename]]
              ELSE @[i]]]
  IN [id |-> emailId,
      steps |-> <<withEmail, withoutOld, withNew, withNames>>]

\* upsertEmail(email, attachments).  Preparing the INSERT throws when the
\* emails table has no to_addresses, cc_addresses, bcc_addresses columns;
\* `fault` is the statement of the transaction that fails.  A throw rolls
\* back.  The attachments are replaced only when attachments.length > 0.
upsertEmail(d, email, attachments, fault) ==
  LET run == upsertStatements(d, email, attachments) IN
    IF ~d.address_columns \/ fault # "none"
    THEN [threw |-> TRUE, db |-> d, id |-> NullUid]
    ELSE [threw |-> FALSE,
          db |-> IF Len(attachments) > 0 THEN run.steps[4]
                 ELSE run.steps[1],
          id |-> run.id]

\* The for loop of batchUpsertEmails from position k on: a throw of
\* upsertEmail ends the loop.
RECURSIVE batchLoop(_, _, _, _)
batchLoop(d, emails, faults, k) ==
  IF k > Len(emails) THEN [threw |-> FALSE, db |-> d, id |-> NullUid]
  ELSE LET one == upsertEmail(d, emails[k].email, emails[k].attachments,
                              faults[k])
       IN IF one.threw THEN [threw |-> TRUE, db |-> one.db, id |-> NullUid]
          ELSE batchLoop(one.db, emails, faults, k + 1)

\* batchUpsertEmails whose loop runs outside a transaction: the emails
\* written before the failing one stay.
batchUpsertEmails_NoTransaction(d, emails, faults) ==
  batchLoop(d, emails, faults, 1)

\* batchUpsertEmails(emails): the loop runs in one transaction, and each
\* upsertEmail in a nested one; a throw rolls back the whole batch.
batchUpsertEmails(d, emails, faults) ==
  LET run == batchLoop(d, emails, faults, 1) IN
    IF run.threw THEN [threw |-> TRUE, db |-> d, id |-> NullUid] ELSE run

\* getAttachments(emailId)
getAttachments(d, emailId) ==
  SelectSeq(d.attachments, LAMBDA a : a.email_id = emailId)

\* MATCH of an index entry against a one-word query: the word is in one
\* of the indexed columns (message_id is UNINDEXED).
Match(entry, keyword) ==
  keyword \in {entry.subject, entry.from_address, entry.body_text}
                \cup Range(entry.recipient_addresses)
                \cup Range(entry.attachment_names)

\* searchByKeyword(keyword): emails joined with emails_fts on message_id.
searchByKeyword(d, keyword) ==
  SelectSeq(d.emails,
            LAMBDA e : \E i \in DOMAIN d.emails_fts :
                         /\ d.emails_fts[i].message_id = e.message_id
                         /\ Match(d.emails_fts[i], keyword))

\* DELETE FROM emails WHERE message_id = ?: recipients and attachments go
\* with the row (ON DELETE CASCADE, foreign_keys = ON) and the delete
\* trigger removes the index entry.
deleteEmailRow(d, messageId) ==
  LET gone == SelectSeq(d.emails, LAMBDA e : e.message_id = messageId)
      ids == {gone[i].id : i \in DOMAIN gone}
      without ==
        [d EXCEPT
           !.emails = SelectSeq(@, LAMBDA e : e.message_id # messageId),
           !.recipients = SelectSeq(@, LAMBDA r : r.email_id \notin ids),
           !.attachments = SelectSeq(@, LAMBDA a : a.email_id \notin ids)]
  IN IF gone = <<>> THEN d ELSE emails_fts_delete(without, gone[1])

\* Inputs of the calls.
StoreIds == {MsgA, MsgB}
Subjects == {"alpha", "beta"}
AttachmentLists == {<<>>, <<AttachmentOf("f.pdf")>>}
RecipientLists == {<<>>, <<RecipientOf("r@x")>>}
FlagUpdates ==
  {<<>>,
   [isRead |-> TRUE],
   [isStarred |-> TRUE, labels |-> <<"news">>],
   [isImportant |-> TRUE, folder |-> AllMail]}

\* The statements that run in an email write with these lists.
FaultsOf(recipients, attachments, always) ==
  {"none", "emails"} \cup always
    \cup (IF recipients # <<>> THEN {"recipients"} ELSE {})
    \cup (IF attachments # <<>> THEN {"attachments"} ELSE {})

Called(call, result) ==
  /\ dbCalls < MaxStoreCalls
  /\ dbCalls' = dbCalls + 1
  /\ dbCall' = call
  /\ dbBefore' = db
  /\ dbResult' = result
  /\ db' = result.db
  /\ UNCHANGED <<imapLog, regVars, checkVars, ctxVars, syncVars, idleVars,
                 handlerVars, opVars, searchVars, fetchVars, hostVars,
                 overlapVars, labelVars>>

\* The UID the message has in INBOX.
UidOf(messageId) == IF messageId = MsgA THEN MaxUid ELSE MaxUid + 1

\* EmailDatabase.insertEmail(email, recipients, attachments)
InsertEmail(messageId, subject, recipients, attachments, fault) ==
  LET email == [message_id |-> messageId, imap_uid |-> UidOf(messageId),
                subject |-> subject, body_text |-> "body",
                is_read |-> FALSE, folder |-> Inbox]
  IN Called([op |-> "insertEmail", messageId |-> messageId,
             email |-> email, recipients |-> recipients,
             attachments |-> attachments, fault |-> fault],
            insertEmail(db, email, recipients, attachments, fault))

\* DatabaseManager.upsertEmail(email, attachments)
UpsertEmail(email, attachments, fault) ==
  Called([op |-> "upsertEmail", messageId |-> email.messageId,
          email |-> email, attachments |-> attachments, fault |-> fault],
         upsertEmail(db, email, attachments, fault))

\* DatabaseManager.batchUpsertEmails(emails)
BatchUpsertEmails(emails, faults) ==
  Called([op |-> "batchUpsertEmails", emails |-> emails,
          faults |-> faults],
         batchUpsertEmails(db, emails, faults))

\* DatabaseManager.updateEmailFlags(messageId, updates)
UpdateEmailFlags(messageId, updates) ==
  Called([op |-> "updateEmailFlags", messageId |-> messageId,
          updates |-> updates],
         [threw |-> FALSE, db |-> updateEmailFlags(db, messageId, updates),
          id |-> NullUid])

\* DatabaseManager.getEmailByMessageId(messageId)
GetEmailByMessageId(messageId) ==
  Called([op |-> "getEmailByMessageId", messageId |-> messageId],
         [threw |-> FALSE, db |-> db, id |-> NullUid,
          email |-> getEmailByMessageId(db, messageId)])

\* A row of emails is deleted.
DeleteEmailRow(messageId) ==
  Called([op |-> "delete", messageId |-> messageId],
         [threw |-> FALSE, db |-> deleteEmailRow(db, messageId),
          id |-> NullUid])

(***************************************************************************)
(* Specification of the store: the file holds no message or one synced    *)
(* message, and its emails table has the three address columns or not.    *)
(***************************************************************************)
InitStore ==
  /\ RegRest
  /\ CheckInit
  /\ \E rows \in {<<>>, <<[EmailRow(MsgA, UidOf(MsgA), Inbox, NullLabels)
                             EXCEPT !.subject = "alpha"]>>} :
       \E columns \in BOOLEAN :
         db = [Stored(rows) EXCEPT !.address_columns = columns]
  /\ imapLog = <<>>
  /\ CtxRest
  /\ SyncRest
  /\ IdleRest
  /\ HandlerRest
  /\ OpRest
  /\ CallRest
  /\ SearchRest
  /\ FetchRest
  /\ HostRest
  /\ OverlapRest
  /\ LabelRest

NextStore ==
  \/ \E messageId \in StoreIds : \E recipients \in RecipientLists :
       \E attachments \in AttachmentLists :
         \E fault \in FaultsOf(recipients, attachments, {"emails_fts"}) :
           InsertEmail(messageId, "alpha", recipients, attachments, fault)
  \/ \E messageId \in StoreIds : \E subject \in Subjects :
       \E imapUid \in {Undefined, MaxUid} :
         \E attachments \in AttachmentLists :
           \E fault \in FaultsOf(<<>>, attachments, {}) :
             UpsertEmail(Record(messageId, imapUid, subject,
                                Len(attachments)),
                         attachments, fault)
  \/ \E attachments \in AttachmentLists :
       \E faults \in {<<"none", "none">>, <<"none", "emails">>} :
         BatchUpsertEmails(
           <<[email |-> Record(MsgA, MaxUid, "beta", Len(attachments)),
              attachments |-> attachments],
             [email |-> Record(MsgB, MaxUid, "beta", 0),
              attachments |-> <<>>]>>,
           faults)
  \/ \E messageId \in StoreIds : \E updates \in FlagUpdates :
       UpdateEmailFlags(messageId, updates)
  \/ \E messageId \in StoreIds : GetEmailByMessageId(messageId)
  \/ \E messageId \in StoreIds : DeleteEmailRow(messageId)

SpecStore == InitStore /\ [][NextStore]_vars

(***************************************************************************)
(* Specification of buildImapSearchCriteria.                               *)
(***************************************************************************)
InitCriteria ==
  /\ RegRest
  /\ CheckInit
  /\ StoreRest
  /\ CtxRest
  /\ SyncRest
  /\ IdleRest
  /\ HandlerRest
  /\ OpRest
  /\ CallRest
  /\ criteria \in CriteriaSet
  /\ imapCriteria = <<>>
  /\ FetchRest
  /\ HostRest
  /\ OverlapRest
  /\ LabelRest

NextCriteria == BuildImapSearchCriteria

SpecCriteria == InitCriteria /\ [][NextCriteria]_vars

(***************************************************************************)
(* Specification of fetchEmailsBatch.                                      *)
(***************************************************************************)
InitFetch ==
  /\ RegRest
  /\ CheckInit
  /\ StoreRest
  /\ CtxRest
  /\ SyncRest
  /\ IdleRest
  /\ HandlerRest
  /\ OpRest
  /\ CallRest
  /\ SearchRest
  /\ FetchRest
  /\ HostRest
  /\ OverlapRest
  /\ LabelRest

NextFetch ==
  \/ \E headersOnly \in BOOLEAN : FetchEmailsBatch(headersOnly)
  \/ \E k \in 1..MaxFetch, chunk \in ChunkLengths : FetchData(k, chunk)
  \/ \E k \in 1..MaxFetch : FetchMessageEnd(k)
  \/ \E k \in 1..MaxFetch, err \in BOOLEAN : FetchParsed(k, err)
  \/ \E k \in 1..MaxFetch : FetchError(k)
  \/ \E k \in 1..MaxFetch : FetchEnd(k)
  \/ BatchSettles

SpecFetch == InitFetch /\ [][NextFetch]_vars

(***************************************************************************)
(* Specification of notify and callAgent: a ListenersManager built with    *)
(* or without a notification callback, and the calls of the handlers.      *)
(***************************************************************************)
InitHost ==
  /\ RegRest
  /\ CheckInit
  /\ StoreRest
  /\ CtxRest
  /\ SyncRest
  /\ IdleRest
  /\ HandlerRest
  /\ OpRest
  /\ CallRest
  /\ SearchRest
  /\ FetchRest
  /\ notificationCallback \in BOOLEAN
  /\ delivered = <<>>
  /\ hostCalls = <<>>
  /\ OverlapRest
  /\ LabelRest

NextHost ==
  \/ \E listenerConfig \in HostListeners, message \in {"m1", "m2"},
        options \in NotifyOptionSets :
       Notify(listenerConfig, message, options)
  \/ \E listenerConfig \in HostListeners, options \in SubagentOptionSets,
        response \in LlmResponses :
       CallAgent(listenerConfig, options, response)

SpecHost == InitHost /\ [][NextHost]_vars

(***************************************************************************)
(* Specification of the overlapping runs of syncEmails.                    *)
(***************************************************************************)
InitOverlap ==
  /\ RegRest
  /\ CheckInit
  /\ \E rows \in {<<>>, <<EmailRow(MsgA, NullUid, Inbox, NullLabels)>>} :
       db = Stored(rows)
  /\ imapLog = <<>>
  /\ CtxRest
  /\ \E n \in 1..MaxUid : \E box \in [1..n -> {MsgA, MsgB, NoMessageId}] :
       mailbox = [i \in 1..n |-> Message(i, box[i], 0)]
  /\ sopts = [limit |-> Undefined, hasAttachments |-> "undefined"]
  /\ now = 0
  /\ spc = "idle"
  /\ suids = <<>>
  /\ sidx = 1
  /\ stats = [synced |-> 0, skipped |-> 0, errors |-> 0]
  /\ sDbBefore = db
  /\ sdispatched = <<>>
  /\ sfaulty = FALSE
  /\ slast = "none"
  /\ sprev = [db |-> db, stats |-> stats, idx |-> 0]
  /\ runs = 0
  /\ runLog = <<>>
  /\ IdleRest
  /\ HandlerRest
  /\ OpRest
  /\ CallRest
  /\ SearchRest
  /\ FetchRest
  /\ HostRest
  /\ oruns = [r \in 1..MaxOverlap |-> NoRun]
  /\ oconnected = FALSE
  /\ odispatched = <<>>
  /\ LabelRest

NextOverlap ==
  \/ \E r \in 1..MaxOverlap, options \in OverlapOptionSets :
       OverlapStart(r, options)
  \/ \E r \in 1..MaxOverlap : OverlapConnected(r)
  \/ \E r \in 1..MaxOverlap : OverlapSearched(r)
  \/ \E r \in 1..MaxOverlap, outcome \in {"ok", "fetch_fails"},
        bind \in {"null", "throws"}, t \in 0..MaxClock :
       OverlapMessage(r, outcome, bind, t)
  \/ \E r \in 1..MaxOverlap : OverlapDispatched(r)

SpecOverlap == InitOverlap /\ [][NextOverlap]_vars

(***************************************************************************)
(* Specification of label operations running at once: the store holds the  *)
(* email with a UID, with no label or with the label "work".               *)
(***************************************************************************)
InitLabels ==
  /\ RegRest
  /\ CheckInit
  /\ \E folder \in {Inbox, AllMail} :
       \E labels \in {NullLabels, JSONstringify(<<>>),
                      JSONstringify(<<"work">>), JSONstringify(<<"news">>),
                      JSONstringify(<<"work", "news">>)} :
         \E rowsB \in RowsOf(MsgB, 6) :
           db = Stored(<<EmailRow(MsgA, 5, folder, labels)>> \o rowsB)
  /\ imapLog = <<>>
  /\ CtxRest
  /\ SyncRest
  /\ IdleRest
  /\ HandlerRest
  /\ OpRest
  /\ CallRest
  /\ SearchRest
  /\ FetchRest
  /\ HostRest
  /\ OverlapRest
  /\ labelOps = [k \in 1..MaxLabelOps |-> NoLabelOp]

NextLabels ==
  \E k \in 1..MaxLabelOps, op \in {"addLabel", "removeLabel"},
     label \in Labels, outcome \in ImapOutcomes :
    LabelOperation(k, op, label, outcome)

SpecLabels == InitLabels /\ [][NextLabels]_vars

(***************************************************************************)
(* Properties of the registry and the dispatcher.                          *)
(***************************************************************************)
\* Positions of cstartSet whose listener is registered for the event kind
\* of the running/last checkEvent.
MatchingAtStart ==
  { i \in DOMAIN cstartSet : cstartSet[i].config.event = ckind }

\* C2: checkEvent never rejects; a handler that throws or rejects is caught
\* (one logged error each) and every matching listener of the snapshot is
\* still invoked, so a finished checkEvent has resolved after as many
\* invocations as there are matching listeners.
C2_CheckEventNeverRejects ==
  /\ cresult # "rejected"
  /\ cpc = "done" =>
       /\ cresult = "resolved"
       /\ Len(invoked) = Cardinality(MatchingAtStart)
       /\ errorsLogged =
            Cardinality({ k \in DOMAIN invoked : invoked[k].outcome # "ok" })

\* A checkEvent has finished in which the first of two handlers threw and
\* the second one was invoked all the same.
C2_Witness ==
  /\ cpc = "done"
  /\ Len(invoked) = 2
  /\ invoked[1].outcome = "throws"
  /\ invoked[2].handler # invoked[1].handler

\* C3: a handler is invoked iff its listener was in the active set when
\* checkEvent started and is registered for the event kind; it is invoked
\* once, with the payload of the call and a context bound to its own config.
C3_DispatchExactlyMatching ==
  /\ \A k \in DOMAIN invoked :
       \E i \in MatchingAtStart :
         /\ invoked[k].handler = cstartSet[i].handler
         /\ invoked[k].data = cdata
         /\ invoked[k].context.listenerId = cstartSet[i].config.id
         /\ invoked[k].context.listenerName = cstartSet[i].config.name
  /\ \A k1, k2 \in DOMAIN invoked :
       invoked[k1].handler = invoked[k2].handler => k1 = k2
  /\ cpc = "done" =>
       \A i \in MatchingAtStart :
         \E k \in DOMAIN invoked : invoked[k].handler = cstartSet[i].handler

\* A checkEvent has finished that invoked one of two active listeners: the
\* other one listens to another event kind.
C3_Witness ==
  /\ cpc = "done"
  /\ Len(cstartSet) = 2
  /\ Len(invoked) = 1
  /\ cdata = "m2"

\* The files of a directory that define an active listener: a .ts name that
\* starts with neither '_' nor '.', an import that succeeds, both exports
\* and enabled = true.
DefinesActiveListener(d, f) ==
  /\ d[f].present
  /\ Len(f) >= 3
  /\ f[Len(f) - 2] = "." /\ f[Len(f) - 1] = "t" /\ f[Len(f)] = "s"
  /\ f[1] \notin {"_", "."}
  /\ d[f].ok /\ d[f].config /\ d[f].handler /\ d[f].enabled

C8_ReloadIsAtomicSwap ==
  (cLoadId # 0 /\ cLoadId = loadCount /\ lcaller = "watcher" /\ lpc = "idle")
    => cstartSet \in {preSet, postSet}

(***************************************************************************)
(* Properties of the context mutations.                                    *)
(***************************************************************************)
\* The rows the store held for the message of the current call when the
\* call started.
RowsBeforeCall ==
  SelectSeq(xDbBefore.emails, LAMBDA row : row.message_id = xop.emailId)

\* The rows the store holds for it now.
RowsNow == SelectSeq(db.emails, LAMBDA row : row.message_id = xop.emailId)

\* The call issued, and the server accepted, the IMAP command of the
\* operation on the UID the row had.
RemoteOperationPerformed ==
  \E k \in (xLogBefore + 1)..Len(imapLog) :
    /\ imapLog[k].ok
    /\ imapLog[k].uid = RowsBeforeCall[1].imap_uid
    /\ imapLog[k].cmd =
         (IF xop.op = "archiveEmail" THEN "move"
          ELSE IF xop.op \in {"starEmail", "markAsRead", "addLabel"}
          THEN "addFlags" ELSE "delFlags")

\* The row of the message holds the mutation of the operation.
StoreHoldsMutation ==
  /\ RowsNow # <<>>
  /\ LET row == RowsNow[1] IN
       CASE xop.op = "archiveEmail" -> row.folder = AllMail
         [] xop.op = "starEmail" -> row.is_starred
         [] xop.op = "unstarEmail" -> ~row.is_starred
         [] xop.op = "markAsRead" -> row.is_read
         [] xop.op = "markAsUnread" -> ~row.is_read
         [] xop.op = "addLabel" -> includes(row.labels.items, xop.label)
         [] xop.op = "removeLabel" -> ~includes(row.labels.items, xop.label)

C4_UnknownOrNoUidThrows ==
  (xpc # "idle"
     /\ (RowsBeforeCall = <<>> \/ RowsBeforeCall[1].imap_uid = NullUid))
    => /\ xpc = "done"
       /\ xresult = "throws"
       /\ Len(imapLog) = xLogBefore
       /\ db = xDbBefore

\* C4: a mutation was called on a stored email without UID, and a mutation
\* was called before on some email; the last call threw "missing IMAP UID".
C4_Witness ==
  /\ xpc = "done"
  /\ xcalls = 2
  /\ RowsBeforeCall # <<>>
  /\ RowsBeforeCall[1].imap_uid = NullUid
  /\ xresult = "throws"
  /\ xerror = "Email missing IMAP UID"
  /\ Len(imapLog) = xLogBefore

(***************************************************************************)
(* Properties of syncEmails.                                               *)
(***************************************************************************)
\* C5: when syncEmails has run twice with the same options over the same
\* mailbox, nothing failing in the environment and the first run skipping
\* nothing, the second run returns synced = 0, skipped = the first run's
\* synced and errors = 0, leaves the store as it found it and dispatches
\* no email_received event.
C5_SecondRunIsNoop ==
  (/\ Len(runLog) = 2
   /\ ~runLog[1].faulty
   /\ ~runLog[2].faulty
   /\ runLog[1].stats.skipped = 0)
    => /\ runLog[2].result = "returned"
       /\ runLog[2].stats =
            [synced |-> 0, skipped |-> runLog[1].stats.synced, errors |-> 0]
       /\ runLog[2].dbAfter = runLog[2].dbBefore
       /\ runLog[2].dispatched = 0

\* C6: a message that fails to be fetched, looked up or stored adds one to
\* errors and nothing else, leaves the store as it was, and the loop goes on
\* to the next UID; a failed connect, open or search makes the run throw
\* with the store, and so every message committed before, as it was.
C6_FailureContainment ==
  /\ slast \in MessageFailures
       => /\ stats = [sprev.stats EXCEPT !.errors = @ + 1]
          /\ db = sprev.db
          /\ spc = "loop"
          /\ sidx = sprev.idx + 1
  /\ slast \in AbortFailures
       => /\ spc = "threw"
          /\ db = sprev.db
          /\ db = sDbBefore
  /\ spc = "threw" => slast \in AbortFailures

\* C6: the second run stored its second message after its first message
\* had failed in the middle of insertEmail, the rows of the first run still
\* in the store.
C6_Witness ==
  /\ runs = 2
  /\ spc = "loop"
  /\ sidx = 3
  /\ slast = "synced"
  /\ sfaulty
  /\ stats = [synced |-> 1, skipped |-> 0, errors |-> 1]
  /\ Len(db.emails) = Len(sDbBefore.emails) + 1
  /\ Len(sDbBefore.emails) > 0

(***************************************************************************)
(* Properties of IDLE monitoring.                                          *)
(***************************************************************************)
\* C9: when the host has started IDLE monitoring once and never stopped
\* it, and monitoring is idling again after one or more errors and their
\* reconnects, exactly one mail handler and one error handler of
\* startIdleMonitoring are registered, and a mail event has invoked the
\* callback exactly once.
C9_HandlersPreservedByReconnect ==
  (/\ hostStarts = 1
   /\ hostStops = 0
   /\ idleErrors >= 1
   /\ isIdling
   /\ iprocs = <<>>
   /\ timers = 0)
    => /\ handlers.mail = 1
       /\ handlers.error = 1
       /\ lastMail.n # 0 => lastMail.calls = 1

\* C10: from stopIdleMonitoring until the next startIdleMonitoring call of
\* the host, isIdleActive() is false, no mail, update, error or close
\* handler of the monitoring is registered and the callback is null.
C10_StoppedStaysStopped ==
  stoppedByHost
    => /\ ~isIdling
       /\ handlers = NoHandlers
       /\ ~onNewEmailCallback

C12_BurstAbsorbedInOneSync ==
  (runs = 1 /\ spc = "returned" /\ ~sfaulty)
    => \A i \in NewMessages(mailbox, sDbBefore) :
         /\ i \notin NewMessages(mailbox, db)
         /\ \E k \in DOMAIN sdispatched :
              sdispatched[k].messageId = mailbox[i].messageId

(***************************************************************************)
(* Properties of the auto_archive_newsletters listener.                    *)
(***************************************************************************)
\* The row of the arrived message.
NewsletterRows ==
  SelectSeq(db.emails, LAMBDA row : row.message_id = nemail.messageId)

\* The UID the server gives the message in All Mail when it moves it:
\* another one than it had in INBOX.
UidInAllMail == NewsletterUid + 1

\* Where the arrived message is on the server before the k-th command.
RemoteLocation(k) ==
  IF \E j \in 1..(k - 1) :
       /\ imapLog[j].ok
       /\ imapLog[j].cmd = "move"
       /\ imapLog[j].uid = nemail.uid
       /\ imapLog[j].folder = Inbox
  THEN [folder |-> AllMail, uid |-> UidInAllMail]
  ELSE [folder |-> Inbox, uid |-> nemail.uid]

\* C13: when the handler of auto_archive_newsletters has completed for an
\* arrived newsletter, the store has the message in '[Gmail]/All Mail' and
\* read, the server has moved it to All Mail and set Seen on the message
\* itself, and one notification of low priority has been emitted.
C13_IngestAndArchive ==
  (npc = "done" /\ isNewsletter(nemail))
    => /\ NewsletterRows # <<>>
       /\ NewsletterRows[1].folder = AllMail
       /\ NewsletterRows[1].is_read
       /\ RemoteLocation(Len(imapLog) + 1).folder = AllMail
       /\ \E k \in DOMAIN imapLog :
            /\ imapLog[k].ok
            /\ imapLog[k].cmd = "addFlags"
            /\ imapLog[k].arg = "\\Seen"
            /\ imapLog[k].folder = RemoteLocation(k).folder
            /\ imapLog[k].uid = RemoteLocation(k).uid
       /\ Len(notifications) = 1
       /\ notifications[1].priority = "low"

(***************************************************************************)
(* Inverse pairs and repeated archiving through the listener context.      *)
(***************************************************************************)
\* The pairs of a context operation and the operation that undoes it.
InversePairs ==
  {<<"starEmail", "unstarEmail">>, <<"markAsRead", "markAsUnread">>,
   <<"addLabel", "removeLabel">>}

\* The last two calls were an operation and its inverse on the same stored
\* email that has a UID, with the same label, and no IMAP step was refused.
InversePairCalled ==
  /\ xpc = "done"
  /\ <<xprev.op, xop.op>> \in InversePairs
  /\ xprev.emailId = xop.emailId
  /\ xprev.label = xop.label
  /\ RowsBeforeCall # <<>>
  /\ RowsBeforeCall[1].imap_uid # NullUid
  /\ xprev.error \notin ImapOutcomes
  /\ xerror \notin ImapOutcomes

\* The last accepted command of the log on the flag or label of the undoing
\* operation removes it from the UID of the row.
RemotelyCleared ==
  LET arg == ImapCommand(xop.op, xop.label).arg
      on == {k \in DOMAIN imapLog :
               /\ imapLog[k].ok
               /\ imapLog[k].uid = RowsBeforeCall[1].imap_uid
               /\ imapLog[k].arg = arg
               /\ imapLog[k].cmd \in {"addFlags", "delFlags"}}
  IN /\ on # {}
     /\ \A k \in on : (\A j \in on : j <= k) => imapLog[k].cmd = "delFlags"

C15_ArchiveIdempotent ==
  (/\ xpc = "done"
   /\ xop.op = "archiveEmail"
   /\ RowsBeforeCall # <<>>
   /\ RowsBeforeCall[1].imap_uid # NullUid
   /\ RowsBeforeCall[1].folder = AllMail
   /\ xerror \notin ImapOutcomes)
    => /\ xresult = "ok"
       /\ Len(RowsNow) = Len(RowsBeforeCall)
       /\ RowsNow[1].folder = AllMail
       /\ SelectSeq(db.emails, LAMBDA row : row.message_id # xop.emailId)
            = SelectSeq(xDbBefore.emails,
                        LAMBDA row : row.message_id # xop.emailId)

(***************************************************************************)
(* Properties of operations that share the connection.                     *)
(***************************************************************************)
\* C16: every mutation command the server executes is executed while the
\* mailbox selected on the connection is the folder the operation declared,
\* opened read-write, whatever other operations run at the same time.
C16_CommandsRunInDeclaredFolder ==
  \A k \in DOMAIN issued :
    issued[k].op \in ContextOps
      => issued[k].selected = [folder |-> issued[k].folder, readOnly |-> FALSE]

\* C17: at most one call of imap.connect() is unanswered at any time, and
\* while one is unanswered the shared promise is there for later callers.
C17_OneAttemptInFlight ==
  /\ connectsInFlight <= 1
  /\ sockConnecting => connectionPromise

\* C18: every step in which the connection fails ("error"), ends ("end",
\* "close") or the connect timeout fires leaves isConnected false and the
\* shared promise cleared.
C18_DownAfterFailure ==
  [][(ErrorEvent \/ CloseEvent \/ ConnTimeout)
       => (~isConnected' /\ ~connectionPromise')]_vars

(***************************************************************************)
(* Properties of the watcher.                                              *)
(***************************************************************************)
\* The watcher loop takes the next change event.
TakesEvent == watchQueue # <<>> /\ watchQueue' = Tail(watchQueue)

\* The load the watcher awaits returns.
WatcherLoadReturns == lcaller = "watcher" /\ lpc # "idle" /\ lpc' = "idle"

\* C19: while the watcher runs, a change event whose file name ends in .ts
\* starts one loadAllListeners, and nothing else starts one; the return of
\* that load calls onChange once with the configs of the map the load
\* built (the load of the whole directory when the directory did not change
\* meanwhile), and nothing else calls onChange; an event with another file
\* name starts no load and calls no onChange.
C19_OneReloadPerTsEvent ==
  /\ [][TakesEvent
         => IF endsWith(Head(watchQueue), <<".", "t", "s">>)
            THEN /\ loadCount' = loadCount + 1
                 /\ lpc' = "readdir"
                 /\ lcaller' = "watcher"
                 /\ onChangeLog' = onChangeLog
            ELSE /\ loadCount' = loadCount
                 /\ lpc' = lpc
                 /\ listeners' = listeners
                 /\ onChangeLog' = onChangeLog]_vars
  /\ [][loadCount' # loadCount
         => TakesEvent /\ loadCount' = loadCount + 1]_vars
  /\ [][WatcherLoadReturns
         => /\ onChangeLog' = Append(onChangeLog, getAllListeners(listeners'))
            /\ loadStable' /\ ~loadFailed'
                 => listeners' = loadAllListeners(dir')]_vars
  /\ [][onChangeLog' # onChangeLog => WatcherLoadReturns]_vars

\* C19: the watcher has taken the event of a new listener file and the
\* event of a file that is no listener file; one reload has run and
\* onChange has been called once, with the new listener in its list.
C19_Witness ==
  /\ watcherActive
  /\ watchQueue = <<>>
  /\ lpc = "idle"
  /\ changes = 2
  /\ dir[FileReadme].present
  /\ dir[FileUrgent] = GoodStarred
  /\ loadCount = 2
  /\ Len(onChangeLog) = 1
  /\ onChangeLog[1] = getAllListeners(listeners)
  /\ \E i \in DOMAIN listeners : listeners[i].handler = FileUrgent

\* The watcher has no event left and no reload is running.
Settled == watcherActive /\ watchQueue = <<>> /\ lpc = "idle"

\* C20: once the watcher has taken every change event and its reload has
\* returned, the map holds what a load of the directory as it is now
\* yields, so the listener of a removed file is not in it; a checkEvent
\* that starts then works on that map, and no checkEvent invokes a handler
\* that was not in the map when it started.
C20_RegistryFollowsDirectory ==
  /\ [](Settled => listeners = loadAllListeners(dir))
  /\ [][(Settled /\ checkCount' = checkCount + 1)
         => cstartSet' = loadAllListeners(dir')]_vars
  /\ [](\A k \in DOMAIN invoked :
          \E i \in DOMAIN cstartSet :
            cstartSet[i].handler = invoked[k].handler)

\* C20: a listener file was added and then removed while the watcher was
\* watching, both reloads have returned, the map is without that listener,
\* and a checkEvent that started afterwards has run the listener that is
\* left and nothing else.
C20_Witness ==
  /\ Settled
  /\ changes = 2
  /\ ~dir[FileUrgent].present
  /\ Len(onChangeLog) = 2
  /\ \E i \in DOMAIN onChangeLog[1] : onChangeLog[1][i].name = FileUrgent
  /\ \A i \in DOMAIN listeners : listeners[i].handler # FileUrgent
  /\ cpc = "done"
  /\ cLoadId = 0
  /\ cstartSet = listeners
  /\ Len(invoked) = 1
  /\ invoked[1].handler = FileArchive

(***************************************************************************)
(* Properties of the registry under reloads.                               *)
(***************************************************************************)
\* C21: every module of the map is enabled; when no load is running and
\* the directory has not changed since the last one started, the file of
\* every module of the map exports a config and a handler and declares
\* enabled = true; and every handler checkEvent has invoked belongs to a
\* module that was enabled in the map when that checkEvent started.
C21_OnlyEnabledAreActive ==
  /\ \A i \in DOMAIN listeners : listeners[i].config.enabled
  /\ (lpc = "idle" /\ loadStable)
       => \A i \in DOMAIN listeners :
            LET exports == dir[listeners[i].handler] IN
              exports.config /\ exports.handler /\ exports.enabled
  /\ \A i \in DOMAIN cqueue : cqueue[i].config.enabled
  /\ \A k \in DOMAIN invoked :
       \E i \in DOMAIN cstartSet :
         /\ cstartSet[i].handler = invoked[k].handler
         /\ cstartSet[i].config.enabled

\* C21: a listener file that declares enabled = false is in the directory,
\* the reload that followed has returned, the map is without it, and a
\* checkEvent on that map has run the enabled listener only.
C21_Witness ==
  /\ Settled
  /\ loadStable
  /\ loadCount > 1
  /\ dir[FileUrgent] = Disabled
  /\ \A i \in DOMAIN listeners : listeners[i].handler # FileUrgent
  /\ cpc = "done"
  /\ ckind = "email_received"
  /\ cstartSet = listeners
  /\ Len(invoked) = 1
  /\ invoked[1].handler = FileArchive

\* C22: a call of watchListeners while a watcher is active returns without
\* creating a watcher; at most one watcher loop is running at any time; a
\* file change hands at most one event to the loop, and the reloads of the
\* watcher are at most as many as the file changes.
C22_OneWatcher ==
  /\ [](watchers <= 1)
  /\ [](loadCount <= changes + 1)
  /\ [][(watcherActive /\ watchCalls' = watchCalls + 1)
         => (watchers' = watchers /\ watcherActive')]_vars
  /\ [][changes' = changes + 1
         => Len(watchQueue') <= Len(watchQueue) + 1]_vars

\* C22: watchListeners was called again while the watcher was active, two
\* listener files changed afterwards, and two reloads have run.
C22_Witness ==
  /\ watchCalls = 2
  /\ watchers = 1
  /\ Settled
  /\ changes = 2
  /\ loadCount = 3
  /\ Len(onChangeLog) = 2

(***************************************************************************)
(* Order of a sync run.                                                    *)
(***************************************************************************)
\* The rows the running/last run has inserted, in the order of insertion.
RunRows == SubSeq(db.emails, Len(sDbBefore.emails) + 1, Len(db.emails))

\* The position of a UID in uidsToProcess.
PositionOf(uid) == CHOOSE i \in DOMAIN suids : suids[i] = uid

\* C23: within a run the loop goes through uidsToProcess one position at a
\* time, in the order of the search; the events handed to checkEvent are,
\* in order, the rows the run has inserted, each one for a row that is
\* committed and for a UID the loop has passed; and they follow the order
\* of the search.
C23_DispatchFollowsInsertOrder ==
  /\ [][(spc = "loop" /\ spc' = "loop") => sidx' \in {sidx, sidx + 1}]_vars
  /\ [][(spc = "opening" /\ spc' = "loop")
         => suids' = uidsToProcess(searchEmails(mailbox), sopts)]_vars
  /\ [](spc \in {"loop", "returned"}
         => /\ Len(sdispatched) = Len(RunRows)
            /\ \A k \in DOMAIN sdispatched :
                 /\ sdispatched[k].messageId = RunRows[k].message_id
                 /\ sdispatched[k].uid = RunRows[k].imap_uid
                 /\ \E i \in DOMAIN suids : suids[i] = sdispatched[k].uid
                 /\ PositionOf(sdispatched[k].uid) < sidx
            /\ \A j, k \in DOMAIN sdispatched :
                 j < k => PositionOf(sdispatched[j].uid)
                            < PositionOf(sdispatched[k].uid))

\* C23: a run over two messages has returned, both are stored and both
\* were handed to checkEvent.
C23_Witness ==
  /\ spc = "returned"
  /\ runs = 1
  /\ Len(suids) = 2
  /\ Len(sdispatched) = 2
  /\ Len(RunRows) = 2

(***************************************************************************)
(* Properties of the store.                                                *)
(***************************************************************************)

\* The rows with a message-id, before the last call and now.
RowsWith(d, messageId) ==
  SelectSeq(d.emails, LAMBDA row : row.message_id = messageId)

\* The file names of the attachments stored for a row, in stored order.
StoredNames(d, emailId) ==
  [k \in DOMAIN getAttachments(d, emailId) |->
     getAttachments(d, emailId)[k].filename]

GivenNames(attachments) ==
  [k \in DOMAIN attachments |-> attachments[k].filename]

\* C24: after upsertEmail(record, attachments) in which no statement
\* fails, the store holds one row with the record's message-id carrying the
\* record's mutable fields; when a row with that message-id was stored it
\* is that row (no second row, and the returned id is its id), otherwise
\* it is a new row; and the attachments stored for the row are exactly the
\* given list, the empty list included.
C24_UpsertReplacesAttachments ==
  (dbCall.op = "upsertEmail" /\ dbCall.fault = "none")
    => LET before == RowsWith(dbBefore, dbCall.messageId)
           after == RowsWith(db, dbCall.messageId)
       IN /\ ~dbResult.threw
          /\ Len(after) = 1
          /\ after[1].id = dbResult.id
          /\ after[1].subject = dbCall.email.subject
          /\ after[1].is_read = dbCall.email.isRead
          /\ after[1].folder = dbCall.email.folder
          /\ IF before # <<>>
             THEN /\ Len(db.emails) = Len(dbBefore.emails)
                  /\ dbResult.id = before[1].id
             ELSE /\ Len(db.emails) = Len(dbBefore.emails) + 1
                  /\ \A i \in DOMAIN dbBefore.emails :
                       dbBefore.emails[i].id # dbResult.id
          /\ StoredNames(db, dbResult.id) = GivenNames(dbCall.attachments)

\* The column each field of `updates` is written to.
ColumnOf ==
  [isRead |-> "is_read", isStarred |-> "is_starred",
   isImportant |-> "is_important", labels |-> "labels",
   folder |-> "folder"]

\* C25: updateEmailFlags(messageId, updates) changes, in the row with that
\* message-id, only the columns of the fields present in updates, to the
\* given values, and updated_at; every other column, every other row and
\* every other table stay as they were; with no field present nothing is
\* written.
C25_UpdateFlagsFrame ==
  dbCall.op = "updateEmailFlags"
    => LET updates == dbCall.updates
           written == {ColumnOf[f] : f \in DOMAIN updates}
       IN /\ Len(db.emails) = Len(dbBefore.emails)
          /\ \A i \in DOMAIN db.emails :
               LET old == dbBefore.emails[i]
                   new == db.emails[i]
               IN IF old.message_id = dbCall.messageId /\ written # {}
                  THEN /\ \A c \in DOMAIN old :
                            new[c] # old[c]
                              => c \in written \cup {"updated_at"}
                       /\ \A f \in DOMAIN updates :
                            new[ColumnOf[f]] =
                              IF f = "labels" THEN JSONstringify(updates[f])
                              ELSE updates[f]
                       /\ new.updated_at # old.updated_at
                  ELSE new = old
          /\ db.attachments = dbBefore.attachments
          /\ db.recipients = dbBefore.recipients
          /\ db.emails_fts = dbBefore.emails_fts
          /\ written = {} => db = dbBefore

\* C25 witness: a call that gives two fields for a stored message that has
\* a flag set, next to another stored message.
C25_Witness ==
  /\ dbCall.op = "updateEmailFlags"
  /\ DOMAIN dbCall.updates = {"isStarred", "labels"}
  /\ Len(db.emails) = 2
  /\ \E i \in DOMAIN db.emails :
       /\ db.emails[i].message_id = dbCall.messageId
       /\ db.emails[i].is_read
       /\ db.emails[i].is_starred
       /\ ~dbBefore.emails[i].is_starred
       /\ db.emails[i].labels = JSONstringify(<<"news">>)

\* The index entries of a message-id.
EntriesOf(d, messageId) ==
  SelectSeq(d.emails_fts, LAMBDA entry : entry.message_id = messageId)

\* searchByKeyword(keyword) returns the message.
Found(d, keyword, messageId) ==
  \E i \in DOMAIN searchByKeyword(d, keyword) :
    searchByKeyword(d, keyword)[i].message_id = messageId

\* C26: between transactions the index holds exactly one entry per email
\* row, with the row's current subject, sender and body, and no entry for
\* a message-id that has no row; a search for a word that only one
\* message's subject holds returns that message, and after a row is
\* deleted no search returns its message.
C26_IndexMirrorsEmails ==
  /\ \A i \in DOMAIN db.emails :
       LET row == db.emails[i]
           entries == EntriesOf(db, row.message_id)
       IN /\ Len(entries) = 1
          /\ entries[1].subject = row.subject
          /\ entries[1].from_address = row.from_address
          /\ entries[1].body_text = row.body_text
          /\ (\A j \in DOMAIN db.emails :
                j # i => ~Match(FtsEntry(db.emails[j]), row.subject))
               => searchByKeyword(db, row.subject) = <<row>>
  /\ \A j \in DOMAIN db.emails_fts :
       RowsWith(db, db.emails_fts[j].message_id) # <<>>
  /\ dbCall.op = "delete"
       => \A keyword \in Subjects \cup {"body", "a@x", "r@x", "f.pdf"} :
            ~Found(db, keyword, dbCall.messageId)

\* C26 witness: a stored message whose subject an upsert has replaced was
\* found by a search for the new subject, and has been deleted.
C26_Witness ==
  /\ dbCall.op = "delete"
  /\ Found(dbBefore, "beta", dbCall.messageId)
  /\ ~Found(dbBefore, "alpha", dbCall.messageId)
  /\ RowsWith(dbBefore, dbCall.messageId)[1].updated_at > 0
  /\ ~Found(db, "beta", dbCall.messageId)
  /\ EntriesOf(db, dbCall.messageId) = <<>>

\* C27: an email write (insertEmail, upsertEmail) that throws, whichever
\* of its statements failed, leaves the store as it was before the call,
\* and a batchUpsertEmails that throws leaves nothing of any email of the
\* batch.
C27_FailedWriteLeavesNothing ==
  (/\ dbCall.op \in {"insertEmail", "upsertEmail", "batchUpsertEmails"}
   /\ dbResult.threw)
    => db = dbBefore

\* C27 witness: a batch whose first email was written and whose second
\* email failed has thrown.
C27_Witness ==
  /\ dbCall.op = "batchUpsertEmails"
  /\ dbResult.threw
  /\ dbCall.faults = <<"none", "emails">>
  /\ LET first == upsertEmail(dbBefore, dbCall.emails[1].email,
                              dbCall.emails[1].attachments, "none")
     IN /\ ~first.threw
        /\ first.db.emails # dbBefore.emails
        /\ first.db.attachments # dbBefore.attachments
  /\ db = dbBefore

\* C28: no two rows of emails that carry a UID have the same folder and
\* the same UID.
C28_FolderUidUnique ==
  \A i, j \in DOMAIN db.emails :
    (/\ db.emails[i].imap_uid # NullUid
     /\ db.emails[i].imap_uid = db.emails[j].imap_uid
     /\ db.emails[i].folder = db.emails[j].folder)
      => i = j

\* C29: when upsertEmail(m, attachments) has returned and
\* getEmailByMessageId(m.messageId) is called next, the record it returns
\* has the fields of m: imapUid, subject, sender, body, flags, folder,
\* labels and attachment count.
C29_UpsertThenGet ==
  [][(/\ dbCall.op = "upsertEmail"
      /\ ~dbResult.threw
      /\ dbCalls' = dbCalls + 1
      /\ dbCall'.op = "getEmailByMessageId"
      /\ dbCall'.messageId = dbCall.messageId)
       => LET m == dbCall.email
              r == dbResult'.email
          IN /\ r # Null
             /\ r.messageId = m.messageId
             /\ r.subject = m.subject
             /\ r.fromAddress = m.fromAddress
             /\ r.bodyText = m.bodyText
             /\ r.isRead = m.isRead
             /\ r.isStarred = m.isStarred
             /\ r.isImportant = m.isImportant
             /\ r.folder = m.folder
             /\ r.labels = m.labels
             /\ r.attachmentCount = m.attachmentCount
             /\ Get(r, "imapUid") = m.imapUid]_vars

(***************************************************************************)
(* Properties of buildImapSearchCriteria.                                  *)
(***************************************************************************)

\* The predicates that stand for the fields of the criteria that are set
\* (a field is set when it is given with a value other than '', 0 and
\* false; isUnread is also set when it is false): the query in subject or
\* body, one of the senders, one of the recipients, the subject, the two
\* ends of the date range, the attachment keyword, seen or unseen, and the
\* two size limits.
OneOf(key, addresses) ==
  IF Len(addresses) = 1 THEN <<key, addresses[1]>>
  ELSE <<"OR">> \o [i \in DOMAIN addresses |-> <<key, addresses[i]>>]

PredicatesOf(c) ==
  {<<"OR", <<"SUBJECT", v>>, <<"BODY", v>>>> :
     v \in Range(c.query) \ {""}}
  \cup {OneOf("FROM", v.items) :
          v \in {w \in Range(c.from) : w.array \/ w.items # <<"">>}}
  \cup {OneOf("TO", v.items) :
          v \in {w \in Range(c.to) : w.array \/ w.items # <<"">>}}
  \cup {<<"SUBJECT", v>> : v \in Range(c.subject) \ {""}}
  \cup UNION {{<<"SINCE", t>> : t \in Range(d.start)}
                \cup {<<"BEFORE", t>> : t \in Range(d.end)} :
              d \in Range(c.dateRange)}
  \cup {<<"KEYWORD", "has:attachment">> :
          v \in Range(c.hasAttachments) \ {FALSE}}
  \cup {IF v THEN <<"UNSEEN">> ELSE <<"SEEN">> : v \in Range(c.isUnread)}
  \cup {<<"LARGER", v>> : v \in Range(c.minSize) \ {0}}
  \cup {<<"SMALLER", v>> : v \in Range(c.maxSize) \ {0}}

\* C30: the expression built for criteria with a (non-empty) gmailQuery is
\* the one predicate X-GM-RAW with that query, whatever the other fields
\* are; without gmailQuery its members, all of which must hold, are the
\* predicates of the set fields and nothing else, and it is the one
\* predicate ALL when there is none.
C30_SearchExpression ==
  imapCriteria # <<>>
    => IF criteria.gmailQuery \notin {None, Some("")}
       THEN imapCriteria = <<<<"X-GM-RAW", criteria.gmailQuery[1]>>>>
       ELSE IF PredicatesOf(criteria) = {}
            THEN imapCriteria = <<<<"ALL">>>>
            ELSE Range(imapCriteria) = PredicatesOf(criteria)

\* C30 witness: an expression was built for criteria that carry a
\* gmailQuery next to senders, a subject, dates and flags.
C30_Witness ==
  /\ imapCriteria = <<<<"X-GM-RAW", "is:unread OR has:attachment">>>>
  /\ criteria.from = Some(AddressArray(<<"a1", "a2">>))
  /\ criteria.subject = Some("s")
  /\ criteria.isUnread = Some(FALSE)
  /\ criteria.dateRange # None
  /\ criteria.maxSize # None

(***************************************************************************)
(* Limits, counters and overlapping runs of syncEmails.                    *)
(***************************************************************************)

\* C31: a sync requested with limit = 0 that returns has processed no UID
\* (no message was fetched), reports synced, skipped and errors all 0 and
\* leaves the store as it found it.
C31_LimitZeroIsEmpty ==
  (spc = "returned" /\ sopts.limit = 0)
    => /\ suids = <<>>
       /\ stats = [synced |-> 0, skipped |-> 0, errors |-> 0]
       /\ db = sDbBefore

(***************************************************************************)
(* Properties of fetchEmailsBatch.                                         *)
(***************************************************************************)
\* C32: fetchEmailsBatch never rejects; the promise of one fetchEmail is
\* settled at most once, and exactly once when its batch has been collected;
\* a fetch rejected for size never yields a message; and when
\* fetchEmailsBatch has returned, the result map holds exactly the UIDs
\* whose fetch yielded a message, so a failed UID has no entry and takes no
\* other UID's entry away.
C32_BatchIsolatesFailures ==
  /\ fpc # "threw"
  /\ \A k \in DOMAIN fetches :
       /\ fetches[k].settles <= 1
       /\ fetches[k].tooLarge => fetches[k].outcome = "error"
       /\ (fpc = "returned" \/ k < fi) => fetches[k].settles = 1
  /\ fpc = "returned" =>
       results = { fuids[k] : k \in
                     { j \in DOMAIN fuids : fetches[j].outcome = "message" } }

\* C32 witness: a returned batch in which one UID was rejected for size
\* and its parser answered later with a message, while another UID is in
\* the result map.
C32_Witness ==
  /\ fpc = "returned"
  /\ \E k \in DOMAIN fetches :
       /\ fetches[k].tooLarge
       /\ fetches[k].parser = "done"
       /\ fuids[k] \notin results
  /\ results # {}

(***************************************************************************)
(* Properties of notify and callAgent.                                     *)
(***************************************************************************)
\* The notify calls made so far, in order.
NotifyCalls == SelectSeq(hostCalls, LAMBDA c : c.op = "notify")

\* The callAgent calls made so far, in order.
AgentCalls == SelectSeq(hostCalls, LAMBDA c : c.op = "callAgent")

\* C33: with a host callback, the callback has received exactly one
\* notification per notify call that resolved, in the order of the calls,
\* and the i-th carries the id and name of the listener whose context made
\* the i-th call, its message, and its options' priority or "normal" when
\* none was given; without a host callback nothing is received.
C33_NotifyReachesHostOnce ==
  IF notificationCallback
    THEN /\ Len(delivered) = Len(NotifyCalls)
         /\ \A i \in DOMAIN delivered :
              LET c == NotifyCalls[i]
                  n == delivered[i]
              IN /\ n.listenerId = c.config.id
                 /\ n.listenerName = c.config.name
                 /\ n.message = c.message
                 /\ n.priority = IF "priority" \in DOMAIN c.options
                                   THEN c.options.priority ELSE "normal"
    ELSE delivered = <<>>

\* C33 witness: two listeners have each notified once, one with a priority
\* and one without options, and the host has received both.
C33_Witness ==
  /\ notificationCallback
  /\ Len(delivered) = 2
  /\ delivered[1].listenerId # delivered[2].listenerId
  /\ \E i \in 1..2 : "priority" \in DOMAIN NotifyCalls[i].options
  /\ \E i \in 1..2 : NotifyCalls[i].options = [undefined |-> TRUE]

\* C34: a callAgent call fails exactly when the LLM response has no
\* structured (tool_use) block, and otherwise returns the block's payload.
C34_AgentReturnsStructuredPayload ==
  \A i \in DOMAIN AgentCalls :
    LET c == AgentCalls[i]
    IN IF c.response.tool_use
         THEN ~c.result.threw
         ELSE c.result.threw

(***************************************************************************)
(* Counters of a syncEmails run.                                           *)
(***************************************************************************)
\* The number of UIDs a run is to process: min(limit, UIDs found), all of
\* them when no limit is given.
ToProcess ==
  IF sopts.limit = Undefined THEN Len(searchEmails(mailbox))
  ELSE Min(sopts.limit, Len(searchEmails(mailbox)))

CounterSum == stats.synced + stats.skipped + stats.errors

\* The counters of a run in its loop or returned: one increment per UID
\* processed so far, and synced is the number of rows the run inserted.
CountersFollowLoop ==
  /\ spc = "loop" => CounterSum = sidx - 1
  /\ spc = "returned" => CounterSum = Len(suids)
  /\ spc \in {"loop", "returned"} =>
       stats.synced = Len(db.emails) - Len(sDbBefore.emails)

\* C36: when syncEmails has returned, synced + skipped + errors is the
\* number of UIDs processed, which is min(limit, UIDs found) (all UIDs
\* without a limit); every processed UID has added one to exactly one
\* counter, and synced is the number of rows the run inserted.
C36_CountersAddUp ==
  /\ CountersFollowLoop
  /\ spc = "returned" => /\ Len(suids) = ToProcess
                         /\ CounterSum = ToProcess

\* C36 without the runs whose limit is 0: the counters add up to
\* min(limit, UIDs found) for every limit of 1 or more and without a limit.
C36_CountersAddUpForLimitAboveZero ==
  /\ CountersFollowLoop
  /\ (spc = "returned" /\ sopts.limit # 0) =>
       /\ Len(suids) = ToProcess
       /\ CounterSum = ToProcess

(***************************************************************************)
(* Properties of overlapping runs of syncEmails.                           *)
(***************************************************************************)
\* C35: whatever the runs of syncEmails that have started, finished or
\* overlap, no message-id has two rows in the store (rows are only added,
\* so each was inserted at most once) and no message-id was handed to
\* checkEvent twice; what was dispatched is stored.
C35_EachMessageIdOnce ==
  /\ \A i, j \in DOMAIN db.emails :
       db.emails[i].message_id = db.emails[j].message_id => i = j
  /\ \A i, j \in DOMAIN odispatched :
       odispatched[i].messageId = odispatched[j].messageId => i = j
  /\ \A i \in DOMAIN odispatched :
       \E k \in DOMAIN db.emails :
         db.emails[k].message_id = odispatched[i].messageId

\* C35 witness: two runs overlap on the same message: one has stored it and
\* awaits its checkEvent while the other, whose fetch was in flight at the
\* same time, has found it stored and skipped it.
C35_Witness ==
  \E r, q \in DOMAIN oruns :
    /\ r # q
    /\ oruns[r].pc = "dispatch"
    /\ oruns[r].stats.synced = 1
    /\ oruns[q].stats.skipped = 1
    /\ oruns[q].uids[1] = oruns[r].uids[oruns[r].i]
    /\ Len(odispatched) = 1

\* C37: a run that awaits openInbox, searchEmails, fetchEmail or checkEvent
\* has its connection up, and no run has met a failure or was aborted
\* because its connection was down.
C37_NoRunLosesItsConnection ==
  \A r \in DOMAIN oruns :
    /\ oruns[r].pc \in {"open", "fetch", "dispatch"} => oconnected
    /\ ~oruns[r].lost

(***************************************************************************)
(* Properties of operations on the monitored connection.                   *)
(***************************************************************************)
\* C38: while isIdleActive() is true the connection is up and the mailbox
\* selected on it is INBOX, the folder given to startIdleMonitoring,
\* whatever mutations and searches have run on the ImapManager.
C38_IdleFolderStaysSelected ==
  isIdling => /\ isConnected
              /\ selected.folder = Inbox

(***************************************************************************)
(* Properties of label operations running at once.                         *)
(***************************************************************************)
\* The labels stored for the email the operations are about.
StoredLabels ==
  LET row == db.emails[CHOOSE i \in DOMAIN db.emails :
                         db.emails[i].message_id = MsgA]
  IN IF row.labels.null THEN {} ELSE Range(JSONparse(row.labels))

\* The operations that are over, and those that returned.
LabelOpsDone == { k \in DOMAIN labelOps : labelOps[k].pc = "done" }
LabelOpsOk == { k \in LabelOpsDone : labelOps[k].result = "ok" }

\* No IMAP command was refused.
ImapAcceptedAll == \A i \in DOMAIN imapLog : imapLog[i].ok

C39_SucceededLabelsBothKept ==
  \A k, j \in LabelOpsOk :
    (/\ k # j
     /\ labelOps[k].op = "addLabel"
     /\ labelOps[k].label # labelOps[j].label)
      => labelOps[k].label \in StoredLabels

====
